---- MODULE Spec2Model ----
(***************************************************************************)
(* Domain-synchronisation core of moodle_manager: the entity graph of      *)
(* data_models.py (LMS, Category, Course, Section, Module, User), the      *)
(* cached filter texts of the entities, LMS.connect / load_lms_data, and   *)
(* the token handshake of moodle_rest.py.                                  *)
(*                                                                         *)
(* The module holds several specifications over groups of variables:       *)
(*   SpecGraph   add/remove operations on a fixed set of entity objects    *)
(*   SpecFilter  setters and get_filter_content of one entity              *)
(*   Spec        LMS.connect, load_lms_data and the loading getters        *)
(*   SpecClient  MoodleRestClient: connect, _make_request, the fetch       *)
(*               methods and download_file against one server answer       *)
(*   SpecCipher  CredentialManager.encrypt_password / decrypt_password     *)
(*   SpecVault   CredentialManager and the credentials file                *)
(*   SpecRace    two instances writing the credentials file step by step   *)
(*   SpecConfig  ConfigManager, the configuration file, the credentials    *)
(*               file                                                      *)
(*   SpecLoad    two load_lms_data calls on one LMS, sub-step by sub-step  *)
(*   SpecNetwork LMSNetwork, the registry of LMS instances                 *)
(***************************************************************************)
EXTENDS Integers, Sequences, FiniteSets, TLC

\* Python's None
None == "None"

(***************************************************************************)
(* SpecGraph: the objects of the heap and the bound of the exploration.    *)
(***************************************************************************)
\* total number of list entries over all containers of the heap
MaxLinks == 2

LMSs == {"lms1", "lms2"}
Categories == {"cat1", "cat2"}
Courses == {"course1", "course2"}
Sections == {"sec1", "sec2"}
Modules == {"mod1"}
Users == {"user1"}

VARIABLES
    \* ---- SpecGraph: fields of the heap objects ----
    lms_categories,          \* LMS._categories          [LMSs -> Seq(Categories)]
    lms_courses,             \* LMS._courses             [LMSs -> Seq(Courses)]
    category_lms,            \* Category._lms            [Categories -> LMSs \cup {None}]
    category_courses,        \* Category._courses        [Categories -> Seq(Courses)]
    course_category,         \* Course._category         [Courses -> Categories \cup {None}]
    course_lms,              \* Course._lms              [Courses -> LMSs \cup {None}]
    course_content,          \* Course._course_content   [Courses -> Seq(Sections)]
    course_enrolled_users,   \* Course._enrolled_users   [Courses -> Seq(Users)]
    section_course,          \* Section._course          [Sections -> Courses \cup {None}]
    section_modules,         \* Section._modules         [Sections -> Seq(Modules)]
    module_section,          \* Module._section          [Modules -> Sections \cup {None}]
    user_course,             \* User._course             [Users -> Courses \cup {None}]
    graphOp,                 \* the last add/remove call and whether the child was in the list
    \* ---- SpecFilter: one entity with a cached filter text ----
    fc_kind,                 \* the entity's class
    fc_attrs,                \* its attributes [field -> value]
    fc_cache,                \* its _filter_content
    fc_read,                 \* what the last call returned, if it was get_filter_content
    fc_trail,                \* reads and cache-relevant writes so far (0..3)
    \* ---- Spec: one LMS object and its MoodleRestClient ----
    lms,                     \* the LMS object: _token, moodle_client, _categories, _courses,
                             \* _enrolled_courses
    call,                    \* the last call on the LMS: its name, what the server answered,
                             \* what it returned
    \* ---- SpecClient: one MoodleRestClient ----
    rest_client,             \* the client object: its token
    rest_call,               \* the last call on the client: its arguments, the server's
                             \* answer, the requests it sent, what it returned
    \* ---- SpecCipher, SpecVault: one CredentialManager and the credentials file ----
    cm,                      \* the instance: whether it has a Fernet object, and its key
    credentials_file,        \* the file .credentials
    vault_call,              \* the last call on the instance
    last_enc,                \* the last text encrypt_password returned, with its arguments
    masters_used,            \* the master_password arguments of the encrypt/decrypt calls
    \* ---- SpecRace: two instances on the credentials file ----
    race,                    \* per instance: where it is in its call, the dict it
                             \* loaded, the last call it completed
    overlapped,              \* a call began while a call of the other instance was running
    \* ---- SpecConfig: one ConfigManager and the configuration file ----
    config_disk,             \* the configuration file
    configs,                 \* ConfigManager.configs
    config_file,             \* ConfigManager.config_file
    cfg_call,                \* the last call on the ConfigManager
    cfg_ret,                 \* what the last get_autoconnect_config returned
    cfg_added,               \* the add_config calls with remember_me whose profile is in
                             \* self.configs or in the file: their arguments, and whether
                             \* a save_config has written the profile
    \* ---- SpecLoad: two load_lms_data calls on the LMS object lms ----
    loaders,                 \* per call: the sub-step it is at, the answers of the server
    load_order,              \* whether the calls overlapped, and the call that began last
    \* ---- SpecNetwork: one LMSNetwork ----
    net_lists,               \* the list objects: own, LMSNetwork._lms_list; copy, the
                             \* list self._lms_list.copy() made
    net_held,                \* the list object the caller of get_all_lms holds
    net_call                 \* the last call on the LMSNetwork

graphVars == <<lms_categories, lms_courses, category_lms, category_courses,
               course_category, course_lms, course_content, course_enrolled_users,
               section_course, section_modules, module_section, user_course, graphOp>>

filterVars == <<fc_kind, fc_attrs, fc_cache, fc_read, fc_trail>>

lmsVars == <<lms, call>>

clientVars == <<rest_client, rest_call>>

vaultVars == <<cm, credentials_file, vault_call, last_enc, masters_used>>

raceVars == <<race, overlapped>>

configVars == <<config_disk, configs, config_file, cfg_call, cfg_ret, cfg_added>>

loadVars == <<loaders, load_order>>

netVars == <<net_lists, net_held, net_call>>

vars == <<graphVars, filterVars, lmsVars, clientVars, vaultVars, raceVars, configVars,
          loadVars, netVars>>

\* the variables of the other specifications stay as they are
GraphFrame ==
    UNCHANGED <<filterVars, lmsVars, clientVars, vaultVars, raceVars, configVars,
               loadVars, netVars>>
FilterFrame ==
    UNCHANGED <<graphVars, lmsVars, clientVars, vaultVars, raceVars, configVars,
               loadVars, netVars>>
LmsFrame ==
    UNCHANGED <<graphVars, filterVars, clientVars, vaultVars, raceVars, configVars,
               loadVars, netVars>>
ClientFrame ==
    UNCHANGED <<graphVars, filterVars, lmsVars, vaultVars, raceVars, configVars,
               loadVars, netVars>>
VaultFrame ==
    UNCHANGED <<graphVars, filterVars, lmsVars, clientVars, raceVars, configVars,
               loadVars, netVars>>
\* the instances of SpecRace write credentials_file
RaceFrame ==
    UNCHANGED <<graphVars, filterVars, lmsVars, clientVars, configVars, loadVars, netVars,
                cm, vault_call, last_enc, masters_used>>
\* the ConfigManager of SpecConfig uses the credential manager
ConfigFrame ==
    UNCHANGED <<graphVars, filterVars, lmsVars, clientVars, raceVars, loadVars, netVars,
                vault_call, last_enc, masters_used>>
\* the calls of SpecLoad write lms
LoadFrame ==
    UNCHANGED <<graphVars, filterVars, clientVars, vaultVars, raceVars, configVars, netVars,
                call>>
NetFrame ==
    UNCHANGED <<graphVars, filterVars, lmsVars, clientVars, vaultVars, raceVars, configVars,
                loadVars>>

(***************************************************************************)
(* Python list helpers.                                                    *)
(***************************************************************************)
\* x in lst
InList(x, lst) == \E i \in 1..Len(lst) : lst[i] = x

\* index of the first occurrence of x in lst (x is in lst)
FirstIndex(x, lst) == CHOOSE i \in 1..Len(lst) : lst[i] = x /\ \A j \in 1..(i - 1) : lst[j] # x

\* lst.remove(x): drops the first occurrence of x
ListRemove(x, lst) ==
    LET k == FirstIndex(x, lst)
    IN  [i \in 1..(Len(lst) - 1) |-> IF i < k THEN lst[i] ELSE lst[i + 1]]

RECURSIVE SumLen(_, _)
SumLen(f, S) ==
    IF S = {} THEN 0
    ELSE LET x == CHOOSE y \in S : TRUE IN Len(f[x]) + SumLen(f, S \ {x})

\* number of list entries on the heap; add operations are cut off at MaxLinks
Links ==
    SumLen(lms_categories, LMSs) + SumLen(lms_courses, LMSs)
    + SumLen(category_courses, Categories) + SumLen(course_content, Courses)
    + SumLen(course_enrolled_users, Courses) + SumLen(section_modules, Sections)

GraphInit ==
    /\ lms_categories = [l \in LMSs |-> <<>>]
    /\ lms_courses = [l \in LMSs |-> <<>>]
    /\ category_lms = [c \in Categories |-> None]
    /\ category_courses = [c \in Categories |-> <<>>]
    /\ course_category = [c \in Courses |-> None]
    /\ course_lms = [c \in Courses |-> None]
    /\ course_content = [c \in Courses |-> <<>>]
    /\ course_enrolled_users = [c \in Courses |-> <<>>]
    /\ section_course = [s \in Sections |-> None]
    /\ section_modules = [s \in Sections |-> <<>>]
    /\ module_section = [m \in Modules |-> None]
    /\ user_course = [u \in Users |-> None]
    /\ graphOp = [op |-> "init", pair |-> None, parent |-> None, child |-> None, wasIn |-> FALSE]

FilterIdle ==
    /\ fc_kind = None
    /\ fc_attrs = <<>>
    /\ fc_cache = ""
    /\ fc_read = None
    /\ fc_trail = 0

Op(op, pair, parent, child, wasIn) ==
    [op |-> op, pair |-> pair, parent |-> parent, child |-> child, wasIn |-> wasIn]

\* ---- LMS <-> Category ----
LMS_add_category(l, c) ==
    /\ Links < MaxLinks
    /\ category_lms' = [category_lms EXCEPT ![c] = l]
    /\ lms_categories' = [lms_categories EXCEPT ![l] = Append(@, c)]
    /\ graphOp' = Op("add", "LMS-Category", l, c, InList(c, lms_categories[l]))
    /\ GraphFrame
    /\ UNCHANGED <<lms_courses, category_courses, course_category, course_lms, course_content,
                   course_enrolled_users, section_course, section_modules, module_section,
                   user_course>>

LMS_remove_category(l, c) ==
    /\ IF InList(c, lms_categories[l])
       THEN /\ lms_categories' = [lms_categories EXCEPT ![l] = ListRemove(c, @)]
            /\ category_lms' = [category_lms EXCEPT ![c] = None]
       ELSE UNCHANGED <<lms_categories, category_lms>>
    /\ graphOp' = Op("remove", "LMS-Category", l, c, InList(c, lms_categories[l]))
    /\ GraphFrame
    /\ UNCHANGED <<lms_courses, category_courses, course_category, course_lms, course_content,
                   course_enrolled_users, section_course, section_modules, module_section,
                   user_course>>

\* ---- LMS <-> Course ----
LMS_add_course(l, c) ==
    /\ Links < MaxLinks
    /\ course_lms' = [course_lms EXCEPT ![c] = l]
    /\ lms_courses' = [lms_courses EXCEPT ![l] = Append(@, c)]
    /\ graphOp' = Op("add", "LMS-Course", l, c, InList(c, lms_courses[l]))
    /\ GraphFrame
    /\ UNCHANGED <<lms_categories, category_lms, category_courses, course_category,
                   course_content, course_enrolled_users, section_course, section_modules,
                   module_section, user_course>>

LMS_remove_course(l, c) ==
    /\ IF InList(c, lms_courses[l])
       THEN /\ lms_courses' = [lms_courses EXCEPT ![l] = ListRemove(c, @)]
            /\ course_lms' = [course_lms EXCEPT ![c] = None]
       ELSE UNCHANGED <<lms_courses, course_lms>>
    /\ graphOp' = Op("remove", "LMS-Course", l, c, InList(c, lms_courses[l]))
    /\ GraphFrame
    /\ UNCHANGED <<lms_categories, category_lms, category_courses, course_category,
                   course_content, course_enrolled_users, section_course, section_modules,
                   module_section, user_course>>

\* ---- Category <-> Course ----
Category_add_course(k, c) ==
    /\ Links < MaxLinks
    /\ course_category' = [course_category EXCEPT ![c] = k]
    /\ category_courses' = [category_courses EXCEPT ![k] = Append(@, c)]
    /\ graphOp' = Op("add", "Category-Course", k, c, InList(c, category_courses[k]))
    /\ GraphFrame
    /\ UNCHANGED <<lms_categories, lms_courses, category_lms, course_lms, course_content,
                   course_enrolled_users, section_course, section_modules, module_section,
                   user_course>>

Category_remove_course(k, c) ==
    /\ IF InList(c, category_courses[k])
       THEN /\ category_courses' = [category_courses EXCEPT ![k] = ListRemove(c, @)]
            /\ course_category' = [course_category EXCEPT ![c] = None]
       ELSE UNCHANGED <<category_courses, course_category>>
    /\ graphOp' = Op("remove", "Category-Course", k, c, InList(c, category_courses[k]))
    /\ GraphFrame
    /\ UNCHANGED <<lms_categories, lms_courses, category_lms, course_lms, course_content,
                   course_enrolled_users, section_course, section_modules, module_section,
                   user_course>>

\* ---- Course <-> Section ----
Course_add_section(c, s) ==
    /\ Links < MaxLinks
    /\ section_course' = [section_course EXCEPT ![s] = c]
    /\ course_content' = [course_content EXCEPT ![c] = Append(@, s)]
    /\ graphOp' = Op("add", "Course-Section", c, s, InList(s, course_content[c]))
    /\ GraphFrame
    /\ UNCHANGED <<lms_categories, lms_courses, category_lms, category_courses, course_category,
                   course_lms, course_enrolled_users, section_modules, module_section,
                   user_course>>

\* remove_section takes the section off the list and leaves Section._course as it is
Course_remove_section(c, s) ==
    /\ IF InList(s, course_content[c])
       THEN course_content' = [course_content EXCEPT ![c] = ListRemove(s, @)]
       ELSE UNCHANGED course_content
    /\ graphOp' = Op("remove", "Course-Section", c, s, InList(s, course_content[c]))
    /\ GraphFrame
    /\ UNCHANGED <<lms_categories, lms_courses, category_lms, category_courses, course_category,
                   course_lms, course_enrolled_users, section_course, section_modules,
                   module_section, user_course>>

\* ---- Section <-> Module ----
Section_add_module(s, m) ==
    /\ Links < MaxLinks
    /\ module_section' = [module_section EXCEPT ![m] = s]
    /\ section_modules' = [section_modules EXCEPT ![s] = Append(@, m)]
    /\ graphOp' = Op("add", "Section-Module", s, m, InList(m, section_modules[s]))
    /\ GraphFrame
    /\ UNCHANGED <<lms_categories, lms_courses, category_lms, category_courses, course_category,
                   course_lms, course_content, course_enrolled_users, section_course,
                   user_course>>

Section_remove_module(s, m) ==
    /\ IF InList(m, section_modules[s])
       THEN /\ section_modules' = [section_modules EXCEPT ![s] = ListRemove(m, @)]
            /\ module_section' = [module_section EXCEPT ![m] = None]
       ELSE UNCHANGED <<section_modules, module_section>>
    /\ graphOp' = Op("remove", "Section-Module", s, m, InList(m, section_modules[s]))
    /\ GraphFrame
    /\ UNCHANGED <<lms_categories, lms_courses, category_lms, category_courses, course_category,
                   course_lms, course_content, course_enrolled_users, section_course,
                   user_course>>

\* ---- Course <-> User ----
Course_add_enrolled_user(c, u) ==
    /\ Links < MaxLinks
    /\ user_course' = [user_course EXCEPT ![u] = c]
    /\ course_enrolled_users' = [course_enrolled_users EXCEPT ![c] = Append(@, u)]
    /\ graphOp' = Op("add", "Course-User", c, u, InList(u, course_enrolled_users[c]))
    /\ GraphFrame
    /\ UNCHANGED <<lms_categories, lms_courses, category_lms, category_courses, course_category,
                   course_lms, course_content, section_course, section_modules, module_section>>

Course_remove_enrolled_user(c, u) ==
    /\ IF InList(u, course_enrolled_users[c])
       THEN /\ course_enrolled_users' = [course_enrolled_users EXCEPT ![c] = ListRemove(u, @)]
            /\ user_course' = [user_course EXCEPT ![u] = None]
       ELSE UNCHANGED <<course_enrolled_users, user_course>>
    /\ graphOp' = Op("remove", "Course-User", c, u, InList(u, course_enrolled_users[c]))
    /\ GraphFrame
    /\ UNCHANGED <<lms_categories, lms_courses, category_lms, category_courses, course_category,
                   course_lms, course_content, section_course, section_modules, module_section>>

GraphNext ==
    \/ \E l \in LMSs, c \in Categories : LMS_add_category(l, c)
    \/ \E l \in LMSs, c \in Categories : LMS_remove_category(l, c)
    \/ \E l \in LMSs, c \in Courses : LMS_add_course(l, c)
    \/ \E l \in LMSs, c \in Courses : LMS_remove_course(l, c)
    \/ \E k \in Categories, c \in Courses : Category_add_course(k, c)
    \/ \E k \in Categories, c \in Courses : Category_remove_course(k, c)
    \/ \E c \in Courses, s \in Sections : Course_add_section(c, s)
    \/ \E c \in Courses, s \in Sections : Course_remove_section(c, s)
    \/ \E s \in Sections, m \in Modules : Section_add_module(s, m)
    \/ \E s \in Sections, m \in Modules : Section_remove_module(s, m)
    \/ \E c \in Courses, u \in Users : Course_add_enrolled_user(c, u)
    \/ \E c \in Courses, u \in Users : Course_remove_enrolled_user(c, u)

(***************************************************************************)
(* SpecFilter: the cached filter text of an entity.                        *)
(* One entity object is constructed (Init draws its class and constructor  *)
(* arguments); its setters and get_filter_content are then called in any   *)
(* order.                                                                  *)
(***************************************************************************)
Kinds == {"LMS", "Category", "Course", "Section", "Module", "Content", "User", "UsersGroup"}

\* values the attributes range over
StrValues == {"", "a", "b"}
IdValues == {0, 1}
RolesValues == {<<>>, <<"student">>}

IntFields == {"id", "parent_category"}

FieldValues(field) ==
    IF field \in IntFields THEN IdValues
    ELSE IF field = "roles" THEN RolesValues
    ELSE StrValues

\* the attributes get_filter_content formats, in the order of its f-string
FilterFields(kind) ==
    CASE kind = "UsersGroup" -> <<"group_name", "id">>
      [] kind = "User" -> <<"first_name", "last_name", "full_name", "username", "email", "id">>
      [] kind = "Module" -> <<"name", "mod_name">>
      [] kind = "Section" -> <<"name", "id">>
      [] kind = "Course" -> <<"name", "id">>
      [] kind = "Category" -> <<"name", "id">>
      [] kind = "LMS" -> <<"name", "host">>
      [] kind = "Content" -> <<"file_name", "file_type">>

\* the attributes that have a setter (the back-reference setters are in SpecGraph)
Setters(kind) ==
    CASE kind = "UsersGroup" -> {"group_name", "id"}
      [] kind = "User" -> {"email", "first_name", "last_name", "roles", "username", "notes"}
      [] kind = "Module" -> {"name", "mod_type"}
      [] kind = "Section" -> {"name"}
      [] kind = "Course" -> {"name"}
      [] kind = "Category" -> {"name", "parent_category"}
      [] kind = "LMS" -> {"host", "name", "token"}
      [] kind = "Content" -> {"file_name", "file_type", "mime_type", "file_url"}

\* the setters that end with  self._filter_content = ""
ClearsCache_NoResetInSetUsername(kind, field) ==
    CASE kind = "UsersGroup" -> field \in {"group_name", "id"}
      [] kind = "User" -> field \in {"email", "first_name", "last_name", "roles"}
      [] kind = "Module" -> field \in {"name"}
      [] kind = "Section" -> field \in {"name"}
      [] kind = "Course" -> field \in {"name"}
      [] kind = "Category" -> field \in {"name"}
      [] kind = "LMS" -> field \in {"host", "name"}
      [] kind = "Content" -> field \in {"file_name", "file_type"}

ClearsCache(kind, field) ==
    CASE kind = "UsersGroup" -> field \in {"group_name", "id"}
      [] kind = "User" -> field \in {"email", "first_name", "last_name", "roles", "username"}
      [] kind = "Module" -> field \in {"name"}
      [] kind = "Section" -> field \in {"name"}
      [] kind = "Course" -> field \in {"name"}
      [] kind = "Category" -> field \in {"name"}
      [] kind = "LMS" -> field \in {"host", "name"}
      [] kind = "Content" -> field \in {"file_name", "file_type"}

\* the attributes __init__ takes as arguments; the others start at their default
CtorArgs(kind) ==
    CASE kind = "UsersGroup" -> {"group_name", "id"}
      [] kind = "User" -> {"id", "first_name", "last_name", "email"}
      [] kind = "Module" -> {"mod_name", "name"}
      [] kind = "Section" -> {"id", "name"}
      [] kind = "Course" -> {"id", "name"}
      [] kind = "Category" -> {"id", "name"}
      [] kind = "LMS" -> {"name", "host"}
      [] kind = "Content" -> {}

CtorDefault(field) ==
    IF field \in IntFields THEN 0
    ELSE IF field = "roles" THEN <<>>
    ELSE IF field = "mod_type" THEN "unknow"
    ELSE ""

SeqRange(sq) == {sq[i] : i \in 1..Len(sq)}

StoredFields(kind) == SeqRange(FilterFields(kind)) \cup Setters(kind)

\* str(value) as an f-string formats it
Str(field, value) == IF field \in IntFields THEN ToString(value) ELSE value

\* f"{a} {b} ..." over the fields of the sequence fields
RECURSIVE FormatFields(_, _)
FormatFields(fields, attrs) ==
    IF Len(fields) = 0 THEN ""
    ELSE IF Len(fields) = 1 THEN Str(fields[1], attrs[fields[1]])
    ELSE Str(fields[1], attrs[fields[1]]) \o " " \o FormatFields(Tail(fields), attrs)

\* the text get_filter_content computes from the current attributes
FilterText(kind, attrs) == FormatFields(FilterFields(kind), attrs)

FilterInit ==
    /\ fc_kind \in Kinds
    /\ \E strs \in [StoredFields(fc_kind) -> StrValues], n \in IdValues :
          fc_attrs = [f \in StoredFields(fc_kind) |->
                        IF f \notin CtorArgs(fc_kind) THEN CtorDefault(f)
                        ELSE IF f \in IntFields THEN n
                        ELSE strs[f]]
    /\ fc_cache = ""
    /\ fc_read = None
    /\ fc_trail = 0

\* entity.set_<field>(value)
SetAttr(field, value) ==
    /\ field \in Setters(fc_kind)
    /\ fc_attrs' = [fc_attrs EXCEPT ![field] = value]
    /\ fc_cache' = IF ClearsCache(fc_kind, field) THEN "" ELSE fc_cache
    /\ fc_read' = None
    /\ fc_trail' = IF /\ fc_trail = 1
                      /\ field \in SeqRange(FilterFields(fc_kind))
                      /\ fc_attrs[field] # value
                   THEN 2 ELSE fc_trail
    /\ UNCHANGED fc_kind
    /\ FilterFrame

\* entity.get_filter_content()
GetFilterContent ==
    /\ fc_cache' = IF fc_cache = "" THEN FilterText(fc_kind, fc_attrs) ELSE fc_cache
    /\ fc_read' = fc_cache'
    /\ fc_trail' = IF fc_trail \in {0, 2} THEN fc_trail + 1 ELSE fc_trail
    /\ UNCHANGED <<fc_kind, fc_attrs>>
    /\ FilterFrame

FilterNext ==
    \/ \E field \in Setters(fc_kind) : \E value \in FieldValues(field) : SetAttr(field, value)
    \/ GetFilterContent

(***************************************************************************)
(* Spec: LMS.connect, LMS.load_lms_data and the loading getters, against a *)
(* Moodle server whose answers are chosen per call.                        *)
(*                                                                         *)
(* Python values that may be None are records here, so that they compare:  *)
(* a fetch result is [status, data] with status "ok" (a decoded list),     *)
(* "none" (the client returned None) or "raised"; a list element is a      *)
(* record with dict = TRUE, or BadRecord for an element that is no dict.   *)
(* Course._category is the position of the Category object in              *)
(* LMS._categories, NoCategory for None.                                   *)
(***************************************************************************)
\* number of loading getter calls explored after a load_lms_data
MaxReloads == 1

NoCategory == 0

\* ---- what the token endpoint can answer ----
TokenValues == {"", "abc"}

\* kind: the transport failed, a non-2xx status, a body that is no JSON, a JSON
\* object (token = None: no 'token' key), or JSON that is no object
TokenResponses ==
    {[kind |-> k, token |-> None] :
        k \in {"transport_error", "http_error", "not_json", "array", "string", "number", "null"}}
    \cup {[kind |-> "object", token |-> None]}
    \cup {[kind |-> "object", token |-> t] : t \in TokenValues}

\* ---- what the web-service functions can answer ----
CatRecord(id, name) == [dict |-> TRUE, id |-> id, name |-> name]
CourseRecord(id, fullname, categoryid) ==
    [dict |-> TRUE, id |-> id, fullname |-> fullname, categoryid |-> categoryid]
BadCatRecord == [dict |-> FALSE, id |-> 0, name |-> None]
BadCourseRecord == [dict |-> FALSE, id |-> 0, fullname |-> None, categoryid |-> 0]

Failed == [status |-> "none", data |-> <<>>]
Raised == [status |-> "raised", data |-> <<>>]
Ok(data) == [status |-> "ok", data |-> data]

Science == CatRecord(1, "Science")
Unnamed == CatRecord(2, None)
Physics == CourseRecord(10, "Physics", 1)
Loose == CourseRecord(11, None, 0)
Orphan == CourseRecord(12, "Art", 3)

\* core_course_get_categories
CategoriesResponses ==
    {Failed, Ok(<<Science>>), Ok(<<Unnamed, Science>>), Ok(<<Science, BadCatRecord, Unnamed>>)}

\* core_course_get_courses
CoursesResponses ==
    {Failed, Ok(<<Physics, Loose>>), Ok(<<Orphan, Loose>>),
     Ok(<<Loose, BadCourseRecord, Physics>>)}

\* core_user_get_users_by_field as get_user_by_field returns it: None, the first
\* user record (id 0: no 'id' key), or an exception on a body that is no list
UserResponses == {[status |-> "none", id |-> 0], [status |-> "ok", id |-> 0],
                  [status |-> "ok", id |-> 5], [status |-> "raised", id |-> 0]}

\* core_enrol_get_users_courses
EnrolledResponses ==
    {Failed, Ok(<<>>), Ok(<<Physics>>), Ok(<<Loose, BadCourseRecord>>)}

\* the answers to the requests of one load_lms_data; core_enrol_get_users_courses is
\* only asked for a user with an id
Answers ==
    {a \in [categories : CategoriesResponses, courses : CoursesResponses,
            user : UserResponses, enrolled : EnrolledResponses] :
        (a.user.status # "ok" \/ a.user.id = 0) => a.enrolled = Failed}

NoAnswers == [categories |-> Failed, courses |-> Failed,
              user |-> [status |-> "none", id |-> 0], enrolled |-> Failed]

\* ---- MoodleRestClient ----
\* MoodleRestClient(host, username, password, service)
NewClient == [set |-> TRUE, token |-> ""]
\* an LMS that never ran connect has no moodle_client attribute
NoClient == [set |-> FALSE, token |-> ""]

\* MoodleRestClient.connect against the answer resp: the client afterwards and
\* "True", "False" or "raised"
MoodleRestClient_connect(client, resp) ==
    CASE resp.kind \in {"transport_error", "http_error", "not_json"} ->
            [client |-> client, ret |-> "False"]
      [] resp.kind = "object" /\ resp.token # None ->
            [client |-> [client EXCEPT !.token = resp.token], ret |-> "True"]
      [] resp.kind = "object" /\ resp.token = None ->
            [client |-> client, ret |-> "False"]
      [] OTHER ->
            [client |-> client, ret |-> "raised"]

\* a fetch method of the client (get_categories, get_courses, get_users_courses):
\* _make_request returns None without a request when the client has no token
Fetch(client, resp) ==
    IF ~client.set THEN Raised
    ELSE IF client.token = "" THEN Failed
    ELSE resp

\* get_user_by_field
FetchUser(client, resp) ==
    IF ~client.set THEN [status |-> "raised", id |-> 0]
    ELSE IF client.token = "" THEN [status |-> "none", id |-> 0]
    ELSE resp

\* ---- entity construction ----
\* Category(category_id=cat_data.get('id', 0), name=cat_data.get('name', f"Category {id}"))
\* and category.set_lms(self)
NewCategory(rec) ==
    [id |-> rec.id,
     name |-> IF rec.name = None THEN "Category " \o ToString(rec.id) ELSE rec.name,
     lms |-> "self", courses |-> <<>>, built |-> "latest"]

\* Course(course_id=data.get('id', 0), name=data.get('fullname', f"Course {id}"))
\* and course.set_lms(self)
NewCourse(rec) ==
    [id |-> rec.id,
     name |-> IF rec.fullname = None THEN "Course " \o ToString(rec.id) ELSE rec.fullname,
     lms |-> "self", category |-> NoCategory, built |-> "latest"]

\* LMS.get_category_by_id: the position of the first category with that id
get_category_by_id(s, category_id) ==
    IF \E i \in 1..Len(s.categories) : s.categories[i].id = category_id
    THEN CHOOSE i \in 1..Len(s.categories) :
            /\ s.categories[i].id = category_id
            /\ \A j \in 1..(i - 1) : s.categories[j].id # category_id
    ELSE NoCategory

\* ---- the sub-steps of load_lms_data ----
\* Each returns the LMS afterwards and whether an exception left the method.

\* the for loop of load_categories; an element that is no dict raises
RECURSIVE AppendCategories(_, _)
AppendCategories(s, data) ==
    IF data = <<>> THEN [s |-> s, raised |-> FALSE]
    ELSE IF ~Head(data).dict THEN [s |-> s, raised |-> TRUE]
    ELSE AppendCategories([s EXCEPT !.categories = Append(@, NewCategory(Head(data)))],
                          Tail(data))

\* load_categories without its try/except: the exception leaves the method
load_categories_NoTry(s, answer) ==
    LET fetched == Fetch(s.moodle_client, answer)
        body == IF fetched.status = "raised" THEN [s |-> s, raised |-> TRUE]
                ELSE IF fetched.status = "ok" THEN AppendCategories(s, fetched.data)
                ELSE [s |-> s, raised |-> FALSE]
    IN  [s |-> body.s, escaped |-> body.raised]

load_categories(s, answer) ==
    LET fetched == Fetch(s.moodle_client, answer)
        body == IF fetched.status = "raised" THEN [s |-> s, raised |-> TRUE]
                ELSE IF fetched.status = "ok" THEN AppendCategories(s, fetched.data)
                ELSE [s |-> s, raised |-> FALSE]
    IN  \* except Exception: print
        [s |-> body.s, escaped |-> FALSE]

\* a loop turn that appends to _courses whether or not the course has a category
AttachCourse_AlsoInLmsCourses(s, rec) ==
    LET course == NewCourse(rec)
        category == get_category_by_id(s, rec.categoryid)
        s1 == IF rec.categoryid > 0 /\ category # NoCategory
              THEN [s EXCEPT !.categories[category].courses =
                                Append(@, [course EXCEPT !.category = category])]
              ELSE s
    IN  [s1 EXCEPT !.courses = Append(@, course)]

\* one turn of the for loop of load_courses
AttachCourse(s, rec) ==
    LET course == NewCourse(rec)
        category == get_category_by_id(s, rec.categoryid)
    IN  IF rec.categoryid > 0
        THEN IF category # NoCategory
             THEN [s EXCEPT !.categories[category].courses =
                                Append(@, [course EXCEPT !.category = category])]
             ELSE s
        ELSE [s EXCEPT !.courses = Append(@, course)]

RECURSIVE AppendCourses(_, _)
AppendCourses(s, data) ==
    IF data = <<>> THEN [s |-> s, raised |-> FALSE]
    ELSE IF ~Head(data).dict THEN [s |-> s, raised |-> TRUE]
    ELSE AppendCourses(AttachCourse(s, Head(data)), Tail(data))

load_courses(s, answer) ==
    LET fetched == Fetch(s.moodle_client, answer)
        body == IF fetched.status = "raised" THEN [s |-> s, raised |-> TRUE]
                ELSE IF fetched.status = "ok" THEN AppendCourses(s, fetched.data)
                ELSE [s |-> s, raised |-> FALSE]
    IN  [s |-> body.s, escaped |-> FALSE]

RECURSIVE AppendEnrolled(_, _)
AppendEnrolled(s, data) ==
    IF data = <<>> THEN [s |-> s, raised |-> FALSE]
    ELSE IF ~Head(data).dict THEN [s |-> s, raised |-> TRUE]
    ELSE AppendEnrolled([s EXCEPT !.enrolled_courses = Append(@, NewCourse(Head(data)))],
                        Tail(data))

load_enrolled_courses(s, userAnswer, answer) ==
    LET user_data == FetchUser(s.moodle_client, userAnswer)
        fetched == Fetch(s.moodle_client, answer)
        body == IF user_data.status = "raised" THEN [s |-> s, raised |-> TRUE]
                ELSE IF user_data.status = "ok" /\ user_data.id > 0
                     THEN IF fetched.status = "ok" THEN AppendEnrolled(s, fetched.data)
                          ELSE [s |-> s, raised |-> FALSE]
                ELSE [s |-> s, raised |-> FALSE]
    IN  [s |-> body.s, escaped |-> FALSE]

\* every object built before this load is an object of an earlier load
AgeCourses(courses) == [i \in 1..Len(courses) |-> [courses[i] EXCEPT !.built = "earlier"]]
AgeCategories(categories) ==
    [i \in 1..Len(categories) |->
        [categories[i] EXCEPT !.built = "earlier", !.courses = AgeCourses(@)]]
Aged(s) == [s EXCEPT !.categories = AgeCategories(@), !.courses = AgeCourses(@),
                     !.enrolled_courses = AgeCourses(@)]

\* a clearing that forgets self._courses.clear()
Cleared_KeepsCourses(s) == [s EXCEPT !.categories = <<>>, !.enrolled_courses = <<>>]

\* self._categories.clear(); self._courses.clear(); self._enrolled_courses.clear()
Cleared(s) == [s EXCEPT !.categories = <<>>, !.courses = <<>>, !.enrolled_courses = <<>>]

\* LMS.load_lms_data: the LMS afterwards, the sub-steps that ran, the token the
\* LMS held when the load began, and whether an exception left load_lms_data
load_lms_data(s, answers) ==
    LET s0 == Cleared(Aged(s))
        a == load_categories(s0, answers.categories)
        b == IF a.escaped THEN a ELSE load_courses(a.s, answers.courses)
        c == IF a.escaped \/ b.escaped THEN b
             ELSE load_enrolled_courses(b.s, answers.user, answers.enrolled)
    IN  [s |-> c.s,
         ran |-> <<"load_categories">>
                 \o (IF a.escaped THEN <<>> ELSE <<"load_courses">>)
                 \o (IF a.escaped \/ b.escaped THEN <<>> ELSE <<"load_enrolled_courses">>),
         tokenAtLoad |-> s.token,
         \* except Exception: print
         escaped |-> FALSE]

\* ---- the calls on the LMS ----
NoTokenResponse == [kind |-> "none", token |-> None]

\* LMS(name, host)
NewLMS == [token |-> "", moodle_client |-> NoClient,
           categories |-> <<>>, courses |-> <<>>, enrolled_courses |-> <<>>]

\* LMS.is_connected
LMS_is_connected(s) == s.token # ""

Call(op, first, tokenResponse, answers, clientRet, ret, ran, tokenAtLoad, escaped, again, n) ==
    [op |-> op, first |-> first, tokenResponse |-> tokenResponse, answers |-> answers,
     clientRet |-> clientRet, ret |-> ret, ran |-> ran, tokenAtLoad |-> tokenAtLoad,
     escaped |-> escaped, again |-> again, reloads |-> n]

LmsInit ==
    /\ lms = NewLMS
    /\ call = Call("init", FALSE, NoTokenResponse, NoAnswers, None, None, <<>>, "", FALSE, FALSE, 0)

\* a connect that runs load_lms_data before it stores the token
LMS_connect_LoadBeforeToken(s, tokenResponse, answers) ==
    LET s1 == [s EXCEPT !.moodle_client = NewClient]
        c == MoodleRestClient_connect(s1.moodle_client, tokenResponse)
        l == load_lms_data([s1 EXCEPT !.moodle_client = c.client], answers)
    IN  IF c.ret = "True"
        THEN [s |-> [l.s EXCEPT !.token = c.client.token], clientRet |-> c.ret, ran |-> l.ran,
              tokenAtLoad |-> l.tokenAtLoad, escaped |-> l.escaped,
              ret |-> IF l.escaped THEN "False" ELSE "True"]
        ELSE [s |-> [s1 EXCEPT !.moodle_client = c.client], clientRet |-> c.ret, ran |-> <<>>,
              tokenAtLoad |-> "", escaped |-> FALSE, ret |-> "False"]

\* a connect that runs load_lms_data before it looks at what the handshake returned
LMS_connect_LoadOnFailure(s, tokenResponse, answers) ==
    LET s1 == [s EXCEPT !.moodle_client = NewClient]
        c == MoodleRestClient_connect(s1.moodle_client, tokenResponse)
        s2 == [s1 EXCEPT !.moodle_client = c.client, !.token = c.client.token]
        l == load_lms_data(s2, answers)
    IN  IF c.ret = "True"
        THEN [s |-> l.s, clientRet |-> c.ret, ran |-> l.ran, tokenAtLoad |-> l.tokenAtLoad,
              escaped |-> l.escaped, ret |-> IF l.escaped THEN "False" ELSE "True"]
        ELSE [s |-> l.s, clientRet |-> c.ret, ran |-> <<>>,
              tokenAtLoad |-> "", escaped |-> FALSE, ret |-> "False"]

\* LMS.connect: the LMS afterwards, what the client's connect did, the load
\* connect ran (ran = <<>>: none) and what connect returns
LMS_connect(s, tokenResponse, answers) ==
    LET \* self.moodle_client = MoodleRestClient(self._host, username, password, service)
        s1 == [s EXCEPT !.moodle_client = NewClient]
        c == MoodleRestClient_connect(s1.moodle_client, tokenResponse)
        \* self._token = self.moodle_client.token
        s2 == [s1 EXCEPT !.moodle_client = c.client, !.token = c.client.token]
        l == load_lms_data(s2, answers)
    IN  IF c.ret = "True"
        THEN [s |-> l.s, clientRet |-> c.ret, ran |-> l.ran, tokenAtLoad |-> l.tokenAtLoad,
              escaped |-> l.escaped, ret |-> IF l.escaped THEN "False" ELSE "True"]
        ELSE \* connect() returned False, or raised and  except Exception  caught it
             [s |-> [s1 EXCEPT !.moodle_client = c.client], clientRet |-> c.ret, ran |-> <<>>,
              tokenAtLoad |-> "", escaped |-> FALSE, ret |-> "False"]

\* the LMS holds entities, and the load that built them got other answers than a
HoldsOtherCatalog(a) ==
    /\ call.ran # <<>>
    /\ call.answers # a
    /\ Len(lms.categories) + Len(lms.courses) + Len(lms.enrolled_courses) > 0

Connect(tokenResponse, answers) ==
    LET r == LMS_connect(lms, tokenResponse, answers)
    IN  /\ lms' = r.s
        /\ call' = Call("connect", call.op = "init", tokenResponse,
                        IF r.ran = <<>> THEN NoAnswers ELSE answers,
                        r.clientRet, r.ret, r.ran, r.tokenAtLoad, r.escaped,
                        r.ran # <<>> /\ HoldsOtherCatalog(answers),
                        IF r.ran = <<>> THEN call.reloads ELSE 0)
        /\ LmsFrame

LoadLmsData(answers) ==
    LET r == load_lms_data(lms, answers)
    IN  /\ lms' = r.s
        /\ call' = Call("load_lms_data", call.op = "init", NoTokenResponse, answers, None,
                        IF r.escaped THEN "raised" ELSE None, r.ran, r.tokenAtLoad, r.escaped,
                        HoldsOtherCatalog(answers), 0)
        /\ LmsFrame

\* LMS.get_courses() and the LMS.courses property: load_courses(), then _courses
GetCourses(answer) ==
    LET r == load_courses(lms, answer)
    IN  /\ call.reloads < MaxReloads
        /\ lms' = r.s
        /\ call' = Call("get_courses", call.op = "init", NoTokenResponse,
                        [NoAnswers EXCEPT !.courses = answer], None,
                        IF r.escaped THEN "raised" ELSE None, <<>>, "", FALSE, FALSE,
                        call.reloads + 1)
        /\ LmsFrame

\* LMS.get_categories_from_connection(): load_categories(), then _categories
GetCategoriesFromConnection(answer) ==
    LET r == load_categories(lms, answer)
    IN  /\ call.reloads < MaxReloads
        /\ lms' = r.s
        /\ call' = Call("get_categories_from_connection", call.op = "init", NoTokenResponse,
                        [NoAnswers EXCEPT !.categories = answer], None,
                        IF r.escaped THEN "raised" ELSE None, <<>>, "", FALSE, FALSE,
                        call.reloads + 1)
        /\ LmsFrame

\* the answers that can make a difference: no request is sent after a failed
\* handshake or by a client without a token
AnswersAfter(tokenResponse) ==
    IF tokenResponse.kind = "object" /\ tokenResponse.token \notin {None, ""}
    THEN Answers ELSE {NoAnswers}

AnswersFor(client) == IF client.set /\ client.token # "" THEN Answers ELSE {NoAnswers}

(***************************************************************************)
(* SpecClient: one MoodleRestClient and the answer of the server to each   *)
(* request.  A decoded JSON value is a record [py, v]: its Python type and *)
(* its parts (the elements of a list, the keys of a dict).  A URL is the   *)
(* sequence of its parts, so that "'?' in file_url" is a membership test.  *)
(***************************************************************************)
PyNone == [py |-> "None", v |-> <<>>]
PyList(items) == [py |-> "list", v |-> items]
PyDict(keys) == [py |-> "dict", v |-> keys]
PyStr(text) == [py |-> "str", v |-> <<text>>]
PyInt(digits) == [py |-> "int", v |-> <<digits>>]

\* response.json(): the decoded value of a body, ok = FALSE where the body is no
\* JSON text and json() raises
json_loads(body) ==
    CASE body = "[]" -> [ok |-> TRUE, value |-> PyList(<<>>)]
      [] body = "[{\"id\": 1}]" -> [ok |-> TRUE, value |-> PyList(<<"{id: 1}">>)]
      [] body = "[{\"id\": 1}, {\"id\": 2}]" ->
            [ok |-> TRUE, value |-> PyList(<<"{id: 1}", "{id: 2}">>)]
      [] body = "[\"exception\"]" -> [ok |-> TRUE, value |-> PyList(<<"exception">>)]
      [] body = "{}" -> [ok |-> TRUE, value |-> PyDict(<<>>)]
      [] body = "{\"warnings\": []}" -> [ok |-> TRUE, value |-> PyDict(<<"warnings">>)]
      [] body = "{\"exception\": \"e\", \"message\": \"m\"}" ->
            [ok |-> TRUE, value |-> PyDict(<<"exception", "message">>)]
      [] body = "{\"errorcode\": \"c\", \"exception\": null}" ->
            [ok |-> TRUE, value |-> PyDict(<<"errorcode", "exception">>)]
      [] body = "null" -> [ok |-> TRUE, value |-> PyNone]
      [] body = "\"exception\"" -> [ok |-> TRUE, value |-> PyStr("exception")]
      [] body = "7" -> [ok |-> TRUE, value |-> PyInt("7")]
      [] OTHER -> [ok |-> FALSE, value |-> PyNone]

JsonBodies ==
    {"[]", "[{\"id\": 1}]", "[{\"id\": 1}, {\"id\": 2}]", "[\"exception\"]", "{}",
     "{\"warnings\": []}", "{\"exception\": \"e\", \"message\": \"m\"}",
     "{\"errorcode\": \"c\", \"exception\": null}", "null", "\"exception\"", "7"}

\* bodies that are no JSON text
OtherBodies == {"", "<html>exception</html>", "[{\"id\": 1}"}

\* what the server can answer to a web-service request: session.post raises, the
\* status is not 2xx (raise_for_status raises), or a 2xx response with a body
WsResponses ==
    {[kind |-> "transport_error", body |-> ""]}
    \cup {[kind |-> "http_error", body |-> b] :
            b \in {"<html>exception</html>", "{\"exception\": \"e\", \"message\": \"m\"}", "[]"}}
    \cup {[kind |-> "ok", body |-> b] : b \in JsonBodies \cup OtherBodies}

\* MoodleRestClient(host, ...): host.rstrip('/')
Host == "http://moodle"

\* the fetch methods that return what _make_request returns: the web-service
\* function and the names of the parameters they send
FetchMethods ==
    {"get_categories", "get_courses", "get_enrolled_users_by_course_id",
     "get_users_courses", "get_user_groups_by_course_id", "get_course_content",
     "get_users_grade_book", "get_group_members", "get_grades"}

WsFunction(method) ==
    CASE method = "get_categories" -> "core_course_get_categories"
      [] method = "get_courses" -> "core_course_get_courses"
      [] method = "get_enrolled_users_by_course_id" -> "core_enrol_get_enrolled_users"
      [] method = "get_users_courses" -> "core_enrol_get_users_courses"
      [] method = "get_user_groups_by_course_id" -> "core_group_get_course_groups"
      [] method = "get_course_content" -> "core_course_get_contents"
      [] method = "get_users_grade_book" -> "core_grade_get_grade_items"
      [] method = "get_group_members" -> "core_group_get_group_members"
      [] method = "get_grades" -> "core_grade_get_grades"

WsParams(method) ==
    CASE method \in {"get_categories", "get_courses"} -> <<>>
      [] method = "get_users_courses" -> <<"userid">>
      [] method = "get_group_members" -> <<"groupids[]">>
      [] OTHER -> <<"courseid">>

\* MoodleRestClient.is_connected
is_connected(client) == client.token # ""

\* the POST of _make_request: wstoken, wsfunction, moodlewsrestformat and the params
PostRequest(client, function, params) ==
    [verb |-> "POST", url |-> <<Host, "/webservice/rest/server.php">>,
     data |-> <<client.token, function, "json">> \o params]

\* the result of a call on the client: what it returned, the requests it sent,
\* whether an exception left it, and what it did to the file at save_path
Returned(ret, sent) == [ret |-> ret, sent |-> sent, raised |-> FALSE, saved |-> "untouched"]

\* the variant of _make_request that does not look for the 'exception' key
_make_request_NoExceptionCheck(client, function, params, response) ==
    IF ~is_connected(client) THEN Returned(PyNone, <<>>)
    ELSE LET sent == <<PostRequest(client, function, params)>>
             parsed == json_loads(response.body)
         IN  IF response.kind = "ok" /\ parsed.ok THEN Returned(parsed.value, sent)
             ELSE Returned(PyNone, sent)

\* MoodleRestClient._make_request
_make_request(client, function, params, response) ==
    IF ~is_connected(client) THEN Returned(PyNone, <<>>)
    ELSE LET sent == <<PostRequest(client, function, params)>>
             parsed == json_loads(response.body)
         IN  CASE response.kind \in {"transport_error", "http_error"} ->
                    Returned(PyNone, sent)             \* except RequestException
               [] ~parsed.ok -> Returned(PyNone, sent)  \* except JSONDecodeError
               [] parsed.value.py = "dict" /\ InList("exception", parsed.value.v) ->
                    Returned(PyNone, sent)
               [] OTHER -> Returned(parsed.value, sent)

\* get_categories .. get_grades: "return data if data is not None else None"
Fetch_method(client, method, response) ==
    LET r == _make_request(client, WsFunction(method), WsParams(method), response)
    IN  IF r.ret # PyNone THEN r ELSE [r EXCEPT !.ret = PyNone]

\* ---- download_file ----
FileUrls == {<<"http://moodle/f.pdf">>, <<"http://moodle/f.php", "?", "id=1">>}

\* what the server answers to the GET: session.get raises, a non-2xx status, a
\* body that arrives, or a body whose stream breaks (iter_content raises)
DownloadResponses == {"transport_error", "http_error", "ok", "broken_stream"}

\* what the file system does with save_path: open and write work, open raises
\* OSError (no such directory, no permission), or write raises OSError (disk full)
DiskOutcomes == {"ok", "open_fails", "write_fails"}

PyTrue == [py |-> "bool", v |-> <<"True">>]
PyFalse == [py |-> "bool", v |-> <<"False">>]

\* MoodleRestClient.download_file; only requests.exceptions.RequestException is caught
download_file(client, file_url, response, disk) ==
    IF ~is_connected(client) THEN Returned(PyFalse, <<>>)
    ELSE LET url == IF InList("?", file_url)
                    THEN file_url \o <<"&token=", client.token>>
                    ELSE file_url \o <<"?token=", client.token>>
             sent == <<[verb |-> "GET", url |-> url, data |-> <<>>]>>
         IN  CASE response \in {"transport_error", "http_error"} -> Returned(PyFalse, sent)
               [] disk = "open_fails" ->
                    [ret |-> PyNone, sent |-> sent, raised |-> TRUE, saved |-> "untouched"]
               [] response = "broken_stream" ->
                    [ret |-> PyFalse, sent |-> sent, raised |-> FALSE, saved |-> "partial"]
               [] disk = "write_fails" ->
                    [ret |-> PyNone, sent |-> sent, raised |-> TRUE, saved |-> "partial"]
               [] OTHER ->
                    [ret |-> PyTrue, sent |-> sent, raised |-> FALSE, saved |-> "complete"]

\* ---- the calls ----
NoWsResponse == [kind |-> "none", body |-> ""]

RestCall(op, name, response, disk, tokenBefore, result) ==
    [op |-> op, name |-> name, response |-> response, disk |-> disk,
     tokenBefore |-> tokenBefore, result |-> result]

ClientIdle ==
    /\ rest_client = NewClient
    /\ rest_call = RestCall("new", <<>>, NoWsResponse, "ok", "", Returned(PyNone, <<>>))

\* client.connect(username, password)
ClientConnect(tokenResponse) ==
    LET r == MoodleRestClient_connect(rest_client, tokenResponse)
    IN  /\ rest_client' = r.client
        /\ rest_call' = RestCall("connect", <<>>, tokenResponse, "ok", rest_client.token,
                                 [ret |-> IF r.ret = "True" THEN PyTrue
                                          ELSE IF r.ret = "False" THEN PyFalse ELSE PyNone,
                                  sent |-> <<>>, raised |-> r.ret = "raised",
                                  saved |-> "untouched"])
        /\ ClientFrame

\* client._make_request(function, params)
MakeRequest(function, response) ==
    /\ rest_call' = RestCall("_make_request", <<function>>, response, "ok", rest_client.token,
                             _make_request(rest_client, function, <<>>, response))
    /\ UNCHANGED rest_client
    /\ ClientFrame

\* client.get_categories() .. client.get_grades(course_id)
FetchCall(method, response) ==
    /\ rest_call' = RestCall("fetch", <<method>>, response, "ok", rest_client.token,
                             Fetch_method(rest_client, method, response))
    /\ UNCHANGED rest_client
    /\ ClientFrame

\* client.download_file(file_url, save_path)
DownloadFile(file_url, response, disk) ==
    /\ rest_call' = RestCall("download_file", file_url, [kind |-> response, body |-> ""],
                             disk, rest_client.token,
                             download_file(rest_client, file_url, response, disk))
    /\ UNCHANGED rest_client
    /\ ClientFrame

\* the answers that can make a difference to a client without a token: none
WsResponsesFor(client) == IF is_connected(client) THEN WsResponses ELSE {NoWsResponse}

ClientNext ==
    \/ \E tokenResponse \in TokenResponses : ClientConnect(tokenResponse)
    \/ \E function \in {WsFunction(m) : m \in FetchMethods} :
          \E response \in WsResponsesFor(rest_client) : MakeRequest(function, response)
    \/ \E method \in FetchMethods :
          \E response \in WsResponsesFor(rest_client) : FetchCall(method, response)
    \/ \E file_url \in FileUrls, response \in DownloadResponses, disk \in DiskOutcomes :
          DownloadFile(file_url, response, disk)

(***************************************************************************)
(* SpecCipher and SpecVault: one CredentialManager instance and the        *)
(* credentials file.  A derived key is the record of what PBKDF2 derives   *)
(* it from; a Fernet token is the record of the key and the bytes it was   *)
(* made from; the text stored for a password is the base64 text of a       *)
(* token.  The file is absent or holds a text, which is the dump of a dict *)
(* or no JSON; a dict is the sequence of its entries in insertion order.   *)
(***************************************************************************)
Iterations == 100000

Services == {"s1", "s2"}
Usernames == {"u1", "u2"}
Passwords == {"pw1", "pw2"}
\* master_password of the encrypt/decrypt calls: None or an explicit one
Masters == {None, "k1", "k2"}
\* master_password of the calls on the credentials file
VaultMasters == {None, "k1"}

\* CredentialManager._get_machine_specific_key
_get_machine_specific_key == "sha256(node_system_login)[:32]"

\* no key derived yet (self._encryption_key = None)
NoKey == [secret |-> "", salt |-> "", iterations |-> 0]

\* CredentialManager._get_encryption_key
_get_encryption_key(password) ==
    [secret |-> IF password = None THEN _get_machine_specific_key ELSE password,
     salt |-> "lms_explorer_salt", iterations |-> Iterations]

\* CredentialManager(): _fernet is None
NewCM == [fernet |-> FALSE, key |-> NoKey]

\* CredentialManager._initialize_encryption: a key is derived only when the
\* instance has no Fernet object yet
_initialize_encryption(cm_, password) ==
    IF ~cm_.fernet THEN [fernet |-> TRUE, key |-> _get_encryption_key(password)] ELSE cm_

\* str.encode() / bytes.decode()
encode(text) == [utf8 |-> text]
decode(bytes) == bytes.utf8

\* Fernet(key).encrypt(data) and Fernet(key).decrypt(token), which raises
\* InvalidToken (ok = FALSE) for a token of another key or for bytes that are no token
Fernet_encrypt(key, data) == [authentic |-> TRUE, key |-> key, data |-> data]
Fernet_decrypt(key, token) ==
    IF token.authentic /\ token.key = key
    THEN [ok |-> TRUE, data |-> token.data]
    ELSE [ok |-> FALSE, data |-> encode("")]

\* bytes that are no Fernet token
BadToken == [authentic |-> FALSE, key |-> NoKey, data |-> encode("")]

\* base64.b64encode(token).decode() and base64.b64decode(text.encode()), which
\* raises binascii.Error (ok = FALSE) for a text that is no base64
b64encode(token) == [base64 |-> TRUE, token |-> token]
b64decode(text) ==
    IF text.base64 THEN [ok |-> TRUE, token |-> text.token]
    ELSE [ok |-> FALSE, token |-> BadToken]

\* stored texts that are no ciphertext: no base64, or the base64 of other bytes
CorruptTexts == {[base64 |-> FALSE, token |-> BadToken], [base64 |-> TRUE, token |-> BadToken]}

\* CredentialManager.encrypt_password: the instance afterwards and the text
encrypt_password(cm_, password, master_password) ==
    LET c == _initialize_encryption(cm_, master_password)
    IN  [cm |-> c, ret |-> b64encode(Fernet_encrypt(c.key, encode(password)))]

\* the variant of decrypt_password that hands the stored text to Fernet as it is
decrypt_password_NoBase64Decode(cm_, encrypted_password, master_password) ==
    LET c == _initialize_encryption(cm_, master_password)
        d == Fernet_decrypt(c.key, BadToken)
    IN  [cm |-> c, ret |-> IF d.ok THEN decode(d.data) ELSE ""]

\* CredentialManager.decrypt_password: every exception gives ""
decrypt_password(cm_, encrypted_password, master_password) ==
    LET c == _initialize_encryption(cm_, master_password)
        t == b64decode(encrypted_password)
        d == Fernet_decrypt(c.key, t.token)
    IN  [cm |-> c, ret |-> IF t.ok /\ d.ok THEN decode(d.data) ELSE ""]

\* ---- the credentials file ----
\* json.dump(credentials, f) and json.load(f), which raises JSONDecodeError
\* (ok = FALSE) for a text that is no JSON
json_dump(credentials) == [json |-> TRUE, obj |-> credentials]
json_load(text) == IF text.json THEN [ok |-> TRUE, obj |-> text.obj]
                   ELSE [ok |-> FALSE, obj |-> <<>>]
NotJson == [json |-> FALSE, obj |-> <<>>]

AbsentFile == [exists |-> FALSE, text |-> NotJson]
FileOf(text) == [exists |-> TRUE, text |-> text]

\* dict operations; an entry is [name, username, password, remember]
DictHas(d, name) == \E i \in 1..Len(d) : d[i].name = name
DictGet(d, name) == d[CHOOSE i \in 1..Len(d) : d[i].name = name]
DictPut(d, entry) ==
    IF DictHas(d, entry.name)
    THEN [i \in 1..Len(d) |-> IF d[i].name = entry.name THEN entry ELSE d[i]]
    ELSE Append(d, entry)
DictDel(d, name) == SelectSeq(d, LAMBDA e : e.name # name)
DictKeys(d) == [i \in 1..Len(d) |-> d[i].name]

Entry(name, username, password, remember) ==
    [name |-> name, username |-> username, password |-> password, remember |-> remember]

\* what get_credentials returns: {} or {username, password, remember: True}
NoCred == [found |-> FALSE, username |-> "", password |-> "", remember |-> FALSE]
Cred(username, password) ==
    [found |-> TRUE, username |-> username, password |-> password, remember |-> TRUE]

\* save_credentials, lines 93-101: the dict a writer starts from
LoadOrEmpty(file) ==
    IF file.exists /\ json_load(file.text).ok THEN json_load(file.text).obj ELSE <<>>

\* the variant of save_credentials that starts from an empty dict
save_credentials_FromEmpty(file, cm_, service_name, username, password, remember, master_password) ==
    IF ~remember THEN [file |-> file, cm |-> cm_]
    ELSE LET e == encrypt_password(cm_, password, master_password)
         IN  [file |-> FileOf(json_dump(<<Entry(service_name, username, e.ret, remember)>>)),
              cm |-> e.cm]

\* CredentialManager.save_credentials: the file and the instance afterwards
save_credentials(file, cm_, service_name, username, password, remember, master_password) ==
    IF ~remember THEN [file |-> file, cm |-> cm_]
    ELSE LET credentials == LoadOrEmpty(file)
             e == encrypt_password(cm_, password, master_password)
             entry == Entry(service_name, username, e.ret, remember)
         IN  [file |-> FileOf(json_dump(DictPut(credentials, entry))), cm |-> e.cm]

\* CredentialManager.get_credentials: the instance afterwards and the result
get_credentials(file, cm_, service_name, master_password) ==
    IF ~file.exists \/ ~json_load(file.text).ok THEN [cm |-> cm_, ret |-> NoCred]
    ELSE LET credentials == json_load(file.text).obj
         IN  IF DictHas(credentials, service_name)
                   /\ DictGet(credentials, service_name).remember
             THEN LET cred_data == DictGet(credentials, service_name)
                      d == decrypt_password(cm_, cred_data.password, master_password)
                  IN  [cm |-> d.cm, ret |-> Cred(cred_data.username, d.ret)]
             ELSE [cm |-> cm_, ret |-> NoCred]

\* CredentialManager.delete_credentials
delete_credentials(file, service_name) ==
    IF ~file.exists \/ ~json_load(file.text).ok THEN file
    ELSE LET credentials == json_load(file.text).obj
         IN  IF DictHas(credentials, service_name)
             THEN FileOf(json_dump(DictDel(credentials, service_name)))
             ELSE file

\* CredentialManager.list_services
list_services(file) ==
    IF ~file.exists \/ ~json_load(file.text).ok THEN <<>>
    ELSE DictKeys(json_load(file.text).obj)

\* CredentialManager.clear_all_credentials: os.remove
clear_all_credentials(file) == AbsentFile

\* ---- the calls ----
NoText == b64encode(BadToken)

\* the last call on the instance: its arguments and what it returned (text: the
\* ciphertext given or returned, plain: the result of decrypt_password, cred: the
\* result of get_credentials, names: the result of list_services), and whether
\* the file held an entry for the service before the call
VCall(op, service, username, password, remember, master, text, plain, cred, names, had) ==
    [op |-> op, service |-> service, username |-> username, password |-> password,
     remember |-> remember, master |-> master, text |-> text, plain |-> plain,
     cred |-> cred, names |-> names, had |-> had]

NoVCall(op) == VCall(op, "", "", "", FALSE, None, NoText, "", NoCred, <<>>, FALSE)

\* no text encrypted yet
NoEnc == [set |-> FALSE, text |-> NoText, password |-> "", master |-> None,
          restarted |-> FALSE]

\* a new process before its first call, no credentials file
VaultIdle ==
    /\ cm = NewCM
    /\ credentials_file = AbsentFile
    /\ vault_call = NoVCall("new")
    /\ last_enc = NoEnc
    /\ masters_used = {}

\* files a process can find at its start: none, one that is no JSON, an empty
\* dict, an entry that is not remembered, an entry whose text is no ciphertext
InitialFiles ==
    {AbsentFile, FileOf(NotJson), FileOf(json_dump(<<>>)),
     FileOf(json_dump(<<Entry("s1", "u1",
                              b64encode(Fernet_encrypt(_get_encryption_key(None),
                                                       encode("pw1"))), FALSE)>>)),
     FileOf(json_dump(<<Entry("s2", "u2", [base64 |-> FALSE, token |-> BadToken], TRUE)>>))}

VaultInit ==
    /\ cm = NewCM
    /\ credentials_file \in InitialFiles
    /\ vault_call = NoVCall("new")
    /\ last_enc = NoEnc
    /\ masters_used = {}

\* the application is closed and started again: a new CredentialManager
Restart ==
    /\ cm' = NewCM
    /\ last_enc' = [last_enc EXCEPT !.restarted = last_enc.set]
    /\ vault_call' = NoVCall("restart")
    /\ UNCHANGED <<credentials_file, masters_used>>
    /\ VaultFrame

\* cm.encrypt_password(password, master_password)
EncryptPassword(password, master) ==
    LET r == encrypt_password(cm, password, master)
    IN  /\ cm' = r.cm
        /\ last_enc' = [set |-> TRUE, text |-> r.ret, password |-> password,
                        master |-> master, restarted |-> FALSE]
        /\ masters_used' = masters_used \cup {master}
        /\ vault_call' = VCall("encrypt_password", "", "", password, FALSE, master,
                               r.ret, "", NoCred, <<>>, FALSE)
        /\ UNCHANGED credentials_file
        /\ VaultFrame

\* the texts a caller hands to decrypt_password: the one it got from
\* encrypt_password, or one that is no ciphertext
DecryptTexts == (IF last_enc.set THEN {last_enc.text} ELSE {}) \cup CorruptTexts

\* cm.decrypt_password(text, master_password)
DecryptPassword(text, master) ==
    LET r == decrypt_password(cm, text, master)
    IN  /\ cm' = r.cm
        /\ masters_used' = masters_used \cup {master}
        /\ vault_call' = VCall("decrypt_password", "", "", "", FALSE, master,
                               text, r.ret, NoCred, <<>>, FALSE)
        /\ UNCHANGED <<credentials_file, last_enc>>
        /\ VaultFrame

\* cm.save_credentials(service_name, username, password, remember, master_password)
SaveCredentials(service_name, username, password, remember, master) ==
    LET r == save_credentials(credentials_file, cm, service_name, username, password,
                              remember, master)
    IN  /\ cm' = r.cm
        /\ credentials_file' = r.file
        /\ vault_call' = VCall("save_credentials", service_name, username, password,
                               remember, master, NoText, "", NoCred, <<>>,
                               DictHas(LoadOrEmpty(credentials_file), service_name))
        /\ UNCHANGED <<last_enc, masters_used>>
        /\ VaultFrame

\* cm.get_credentials(service_name, master_password)
GetCredentials(service_name, master) ==
    LET r == get_credentials(credentials_file, cm, service_name, master)
    IN  /\ cm' = r.cm
        /\ vault_call' = VCall("get_credentials", service_name, "", "", FALSE, master,
                               NoText, "", r.ret, <<>>,
                               DictHas(LoadOrEmpty(credentials_file), service_name))
        /\ UNCHANGED <<credentials_file, last_enc, masters_used>>
        /\ VaultFrame

\* cm.delete_credentials(service_name)
DeleteCredentials(service_name) ==
    /\ credentials_file' = delete_credentials(credentials_file, service_name)
    /\ vault_call' = VCall("delete_credentials", service_name, "", "", FALSE, None,
                           NoText, "", NoCred, <<>>,
                           DictHas(LoadOrEmpty(credentials_file), service_name))
    /\ UNCHANGED <<cm, last_enc, masters_used>>
    /\ VaultFrame

\* cm.list_services()
ListServices ==
    /\ vault_call' = VCall("list_services", "", "", "", FALSE, None, NoText, "", NoCred,
                           list_services(credentials_file), FALSE)
    /\ UNCHANGED <<cm, credentials_file, last_enc, masters_used>>
    /\ VaultFrame

\* cm.clear_all_credentials()
ClearAllCredentials ==
    /\ credentials_file' = clear_all_credentials(credentials_file)
    /\ vault_call' = NoVCall("clear_all_credentials")
    /\ UNCHANGED <<cm, last_enc, masters_used>>
    /\ VaultFrame

CipherNext ==
    \/ \E password \in Passwords, master \in Masters : EncryptPassword(password, master)
    \/ \E text \in DecryptTexts, master \in Masters : DecryptPassword(text, master)
    \/ Restart

VaultNext ==
    \/ \E service_name \in Services, username \in Usernames, password \in Passwords,
          remember \in BOOLEAN, master \in VaultMasters :
          SaveCredentials(service_name, username, password, remember, master)
    \/ \E service_name \in Services, master \in VaultMasters :
          GetCredentials(service_name, master)
    \/ \E service_name \in Services : DeleteCredentials(service_name)
    \/ ListServices
    \/ ClearAllCredentials
    \/ Restart

(***************************************************************************)
(* SpecRace: two application instances, each with its own                  *)
(* CredentialManager, on the one credentials file.  save_credentials and   *)
(* delete_credentials run in three steps: load the dict and change it in   *)
(* memory, open the file for writing (which empties it), dump the dict.    *)
(***************************************************************************)
Instances == {"A", "B"}

\* the two instances work on different service names
ServiceOf(i) == IF i = "A" THEN "s1" ELSE "s2"
Other(i) == CHOOSE j \in Instances : j # i

\* the last call an instance completed: "none", "save" with the entry it stored,
\* or "delete"
NoUpdate == [op |-> "none", entry |-> <<>>]

\* an instance between two calls
IdleProc(last) == [pc |-> "idle", op |-> "none", credentials |-> <<>>, last |-> last]

RaceIdle ==
    /\ race = [i \in Instances |-> IdleProc(NoUpdate)]
    /\ overlapped = FALSE

\* the variant of the load of save_credentials that ignores the file
LoadForSave_Nothing(file) == <<>>

\* save_credentials, lines 93-101
LoadForSave(file) == LoadOrEmpty(file)

\* save_credentials, lines 93-111: load the dict, encrypt, put the entry
SaveLoad(i, username, password) ==
    /\ race[i].pc = "idle"
    /\ LET text == encrypt_password(NewCM, password, None).ret
           credentials == DictPut(LoadForSave(credentials_file),
                                  Entry(ServiceOf(i), username, text, TRUE))
       IN  race' = [race EXCEPT ![i] = [pc |-> "loaded", op |-> "save",
                                        credentials |-> credentials, last |-> @.last]]
    /\ overlapped' = (overlapped \/ race[Other(i)].pc # "idle")
    /\ UNCHANGED credentials_file
    /\ RaceFrame

\* delete_credentials, lines 148-156: return when the file is absent, is no JSON
\* or has no entry for the service; otherwise load the dict and delete the entry
DeleteLoad(i) ==
    /\ race[i].pc = "idle"
    /\ IF credentials_file.exists /\ json_load(credentials_file.text).ok
             /\ DictHas(json_load(credentials_file.text).obj, ServiceOf(i))
       THEN race' = [race EXCEPT ![i] =
                        [pc |-> "loaded", op |-> "delete",
                         credentials |-> DictDel(json_load(credentials_file.text).obj,
                                                 ServiceOf(i)),
                         last |-> @.last]]
       ELSE race' = [race EXCEPT ![i] = IdleProc([op |-> "delete", entry |-> <<>>])]
    /\ overlapped' = (overlapped \/ race[Other(i)].pc # "idle")
    /\ UNCHANGED credentials_file
    /\ RaceFrame

\* open(self.credentials_file, 'w'): the file is empty until the dump
OpenForWrite(i) ==
    /\ race[i].pc = "loaded"
    /\ race' = [race EXCEPT ![i].pc = "opened"]
    /\ credentials_file' = FileOf(NotJson)
    /\ UNCHANGED overlapped
    /\ RaceFrame

\* json.dump(credentials, f, indent=2), and the call returns
Dump(i) ==
    /\ race[i].pc = "opened"
    /\ credentials_file' = FileOf(json_dump(race[i].credentials))
    /\ race' = [race EXCEPT ![i] =
                    IdleProc([op |-> race[i].op,
                              entry |-> IF race[i].op = "save"
                                        THEN <<DictGet(race[i].credentials, ServiceOf(i))>>
                                        ELSE <<>>])]
    /\ UNCHANGED overlapped
    /\ RaceFrame

RaceNext ==
    \/ \E i \in Instances, username \in Usernames, password \in Passwords :
          SaveLoad(i, username, password)
    \/ \E i \in Instances : DeleteLoad(i)
    \/ \E i \in Instances : OpenForWrite(i)
    \/ \E i \in Instances : Dump(i)

(***************************************************************************)
(* SpecConfig: one ConfigManager, the configuration file and the           *)
(* credentials file.  A text (a section name, a value) is the sequence of  *)
(* its parts: " " is white space, "%%" an escaped and "%" a plain percent  *)
(* sign.  The file is its DEFAULT options and its sections in file order,  *)
(* each with its options as written; self.configs is the sequence of its   *)
(* entries [name: the section key, cfg: the LMSConfig] in insertion order. *)
(***************************************************************************)
\* number of profiles add_config is explored up to
MaxProfiles == 2

ConfigPath == "conf/config.ini"

RECURSIVE Text(_)
\* the parts of a text as one string
Text(parts) == IF parts = <<>> THEN "" ELSE Head(parts) \o Text(Tail(parts))

RECURSIVE LStrip(_)
LStrip(parts) ==
    IF parts # <<>> /\ Head(parts) = " " THEN LStrip(Tail(parts)) ELSE parts

RECURSIVE RStrip(_)
RStrip(parts) ==
    IF parts # <<>> /\ parts[Len(parts)] = " "
    THEN RStrip(SubSeq(parts, 1, Len(parts) - 1)) ELSE parts

\* configparser: a value is read without the white space around it
Strip(parts) == RStrip(LStrip(parts))

\* configparser.BasicInterpolation.before_get: "%%" is read as "%"
Interpolated(parts) == [i \in 1..Len(parts) |-> IF parts[i] = "%%" THEN "%" ELSE parts[i]]

\* configparser.BasicInterpolation.before_set: a value with a "%" that starts no
\* "%%" or "%(" is refused with ValueError
Settable(parts) == ~InList("%", parts)

\* configparser.optionxform: option names are read in lower case
Lower(key) ==
    CASE key = "URL" -> "url"
      [] key = "User" -> "user"
      [] key = "Remember_Me" -> "remember_me"
      [] OTHER -> key

Option(key, value) == [key |-> key, value |-> value]

\* an option as the parser hands it out
ReadOption(option) == Option(Lower(option.key), Interpolated(Strip(option.value)))

HasOption(options, key) == \E i \in 1..Len(options) : Lower(options[i].key) = key

\* dict(config[section_name]): the options of the section and the DEFAULT options
\* it does not set itself
SectionDict(options, defaults) ==
    [i \in 1..Len(options) |-> ReadOption(options[i])]
    \o SelectSeq([i \in 1..Len(defaults) |-> ReadOption(defaults[i])],
                 LAMBDA o : ~HasOption(options, o.key))

\* data.get(key, default)
DataGet(data, key, default) ==
    IF \E i \in 1..Len(data) : data[i].key = key
    THEN data[CHOOSE i \in 1..Len(data) : data[i].key = key].value
    ELSE default

\* LMSConfig(name, url, username, password, service, autoconnect, remember_me)
LMSConfig(name, url, username, password, service, autoconnect, remember_me) ==
    [name |-> name, url |-> url, username |-> username, password |-> password,
     service |-> service, autoconnect |-> autoconnect, remember_me |-> remember_me]

\* LMSConfig.from_dict
from_dict(name, data) ==
    LMSConfig(name, DataGet(data, "url", <<>>), DataGet(data, "user", <<>>),
              DataGet(data, "password", <<>>),
              DataGet(data, "service", <<"moodle_mobile_app">>),
              DataGet(data, "autoconnect", <<"0">>) = <<"1">>,
              DataGet(data, "remember_me", <<"0">>) = <<"1">>)

\* the variant of to_dict that writes the password of the profile
to_dict_KeepsPassword(cfg) ==
    <<Option("url", cfg.url), Option("user", cfg.username), Option("service", cfg.service),
      Option("autoconnect", IF cfg.autoconnect THEN <<"1">> ELSE <<"0">>),
      Option("remember_me", IF cfg.remember_me THEN <<"1">> ELSE <<"0">>),
      Option("password", cfg.password)>>

\* LMSConfig.to_dict
to_dict(cfg) ==
    <<Option("url", cfg.url), Option("user", cfg.username), Option("service", cfg.service),
      Option("autoconnect", IF cfg.autoconnect THEN <<"1">> ELSE <<"0">>),
      Option("remember_me", IF cfg.remember_me THEN <<"1">> ELSE <<"0">>),
      Option("password", <<>>)>>

\* the configuration file
ConfigFile(defaults, sections) == [exists |-> TRUE, defaults |-> defaults, sections |-> sections]
NoConfigFile == [exists |-> FALSE, defaults |-> <<>>, sections |-> <<>>]
Section(name, options) == [name |-> name, options |-> options]

\* section_name.startswith('lms')
IsProfile(name) == name # <<>> /\ Head(name) = "lms"

\* f"lms_{lms_config.name}_{lms_config.url}"
ServiceKey(name, url) == "lms_" \o Text(name) \o "_" \o Text(url)

\* the password of a profile as load_config sets it: the one of the credential
\* manager when remember_me is set and the credentials are remembered
WithVaultPassword(cfg, file, cm_) ==
    IF ~cfg.remember_me THEN [cfg |-> cfg, cm |-> cm_]
    ELSE LET r == get_credentials(file, cm_, ServiceKey(cfg.name, cfg.url), None)
         IN  [cfg |-> IF r.ret.found /\ r.ret.remember
                      THEN [cfg EXCEPT !.password =
                                IF r.ret.password = "" THEN <<>> ELSE <<r.ret.password>>]
                      ELSE cfg,
              cm |-> r.cm]

RECURSIVE LoadSections(_, _, _, _, _)
\* load_config, lines 76-87: the profiles of the sections, in file order
LoadSections(sections, defaults, file, cm_, configs_) ==
    IF sections = <<>> THEN [configs |-> configs_, cm |-> cm_]
    ELSE LET section == Head(sections)
             r == WithVaultPassword(
                      from_dict(section.name, SectionDict(section.options, defaults)),
                      file, cm_)
         IN  IF IsProfile(section.name)
             THEN LoadSections(Tail(sections), defaults, file, r.cm,
                               DictPut(configs_, [name |-> section.name, cfg |-> r.cfg]))
             ELSE LoadSections(Tail(sections), defaults, file, cm_, configs_)

\* ConfigManager.load_config: self.configs and the credential manager afterwards
load_config(disk, configs_, file, cm_) ==
    IF ~disk.exists THEN [configs |-> configs_, cm |-> cm_]
    ELSE LoadSections(disk.sections, disk.defaults, file, cm_, <<>>)

\* ConfigManager.save_config: the file afterwards, and whether ValueError left the
\* call (a value that configparser refuses); nothing is written without a path
save_config(disk, configs_, path) ==
    IF path = "" THEN [disk |-> disk, wrote |-> FALSE, raised |-> FALSE]
    ELSE IF \E i \in 1..Len(configs_) :
                \E j \in 1..Len(to_dict(configs_[i].cfg)) :
                    ~Settable(to_dict(configs_[i].cfg)[j].value)
    THEN [disk |-> disk, wrote |-> FALSE, raised |-> TRUE]
    ELSE [disk |-> ConfigFile(<<>>, [i \in 1..Len(configs_) |->
                                         Section(configs_[i].name, to_dict(configs_[i].cfg))]),
          wrote |-> TRUE, raised |-> FALSE]

\* ConfigManager.add_config: self.configs, the credentials file and the credential
\* manager afterwards
add_config(configs_, file, cm_, name, url, username, password, service, autoconnect, remember_me) ==
    LET section_name == <<"lms", ToString(Len(configs_) + 1)>>
        lms_config == LMSConfig(name, url, username, password, service, autoconnect,
                                remember_me)
        saved == save_credentials(file, cm_, ServiceKey(name, url), Text(username),
                                  Text(password), remember_me, None)
    IN  [configs |-> DictPut(configs_, [name |-> section_name, cfg |-> lms_config]),
         file |-> IF remember_me THEN saved.file ELSE file,
         cm |-> IF remember_me THEN saved.cm ELSE cm_]

\* ConfigManager.remove_config
remove_config(configs_, file, section_name) ==
    IF ~DictHas(configs_, section_name) THEN [configs |-> configs_, file |-> file]
    ELSE LET lms_config == DictGet(configs_, section_name).cfg
         IN  [configs |-> DictDel(configs_, section_name),
              file |-> IF lms_config.remember_me
                       THEN delete_credentials(file, ServiceKey(lms_config.name,
                                                                lms_config.url))
                       ELSE file]

\* the variant of get_autoconnect_config in which the last profile with the flag wins
get_autoconnect_config_LastWins(configs_) ==
    LET flagged == SelectSeq(configs_, LAMBDA e : e.cfg.autoconnect)
    IN  IF flagged = <<>> THEN <<>> ELSE <<flagged[Len(flagged)]>>

RECURSIVE get_autoconnect_config(_)
\* ConfigManager.get_autoconnect_config: None is <<>>, a profile is <<its entry>>
get_autoconnect_config(configs_) ==
    IF configs_ = <<>> THEN <<>>
    ELSE IF Head(configs_).cfg.autoconnect THEN <<Head(configs_)>>
    ELSE get_autoconnect_config(Tail(configs_))

\* ---- the calls ----
\* an add_config call with remember_me set
Added(section, name, url, password, saved) ==
    [section |-> section, name |-> name, url |-> url, password |-> password,
     saved |-> saved]

\* the last call on the ConfigManager: found: load_config found the file;
\* afterLoad: save_config came right after a load_config that found the file;
\* wrote: save_config wrote the file; raised: an exception left the call
CfgCall(op, found, afterLoad, wrote, raised) ==
    [op |-> op, found |-> found, afterLoad |-> afterLoad, wrote |-> wrote,
     raised |-> raised]

\* a new ConfigManager, no configuration file
ConfigIdle ==
    /\ config_disk = NoConfigFile
    /\ configs = <<>>
    /\ config_file = ""
    /\ cfg_call = CfgCall("new", FALSE, FALSE, FALSE, FALSE)
    /\ cfg_ret = <<>>
    /\ cfg_added = {}

\* a file written by hand: a DEFAULT option, a section that is no profile, a
\* profile with padded and mixed-case options, a profile with one option only, a
\* section whose name starts with "LMS"
HandWritten ==
    ConfigFile(<<Option("service", <<"custom">>)>>,
               <<Section(<<"general">>, <<Option("theme", <<"dark">>)>>),
                 Section(<<"lms", "1">>,
                         <<Option("URL", <<" ", "http://moodle", " ">>),
                           Option("User", <<"u1">>),
                           Option("password", <<"hunter2">>),
                           Option("autoconnect", <<"yes">>),
                           Option("Remember_Me", <<"1", " ">>)>>),
                 Section(<<"lms", "B">>,
                         <<Option("url", <<"http://other">>),
                           Option("autoconnect", <<"1">>)>>),
                 Section(<<"LMS", "3">>, <<Option("url", <<"http://upper">>)>>)>>)

\* a file an earlier save_config wrote
AppWritten ==
    ConfigFile(<<>>,
               <<Section(<<"lms", "1">>,
                         to_dict(LMSConfig(<<"lms", "1">>, <<"http://moodle">>, <<"u1">>,
                                           <<>>, <<"moodle_mobile_app">>, TRUE, TRUE)))>>)

\* a file with an escaped percent sign in a value
Escaped ==
    ConfigFile(<<>>,
               <<Section(<<"lms", "1">>,
                         <<Option("url", <<"http://moodle/", "%%", "7Eu1">>),
                           Option("user", <<"u1">>)>>)>>)

ConfigFiles == {NoConfigFile, HandWritten, AppWritten, Escaped}

\* the credentials file at the start: none, or the remembered password of the
\* profile lms1 of http://moodle under the machine key
ConfigVaultFiles ==
    {AbsentFile,
     FileOf(json_dump(<<Entry(ServiceKey(<<"lms", "1">>, <<"http://moodle">>), "u1",
                              b64encode(Fernet_encrypt(_get_encryption_key(None),
                                                       encode("pw1"))), TRUE)>>))}

ConfigInit ==
    /\ config_disk \in ConfigFiles
    /\ configs = <<>>
    /\ config_file = ""
    /\ cfg_call = CfgCall("new", FALSE, FALSE, FALSE, FALSE)
    /\ cfg_ret = <<>>
    /\ cfg_added = {}
    /\ cm = NewCM
    /\ credentials_file \in ConfigVaultFiles
    /\ vault_call = NoVCall("new")
    /\ last_enc = NoEnc
    /\ masters_used = {}

\* config_manager.load_config(ConfigPath)
LoadConfig ==
    LET r == load_config(config_disk, configs, credentials_file, cm)
    IN  /\ configs' = r.configs
        /\ cm' = r.cm
        /\ config_file' = ConfigPath
        /\ cfg_call' = CfgCall("load_config", config_disk.exists, FALSE, FALSE, FALSE)
        /\ cfg_ret' = <<>>
        /\ cfg_added' = IF config_disk.exists THEN {a \in cfg_added : a.saved}
                        ELSE cfg_added
        /\ UNCHANGED <<config_disk, credentials_file>>
        /\ ConfigFrame

\* config_manager.save_config(config_file), config_file None or a path
SaveConfig(arg) ==
    LET r == save_config(config_disk, configs, IF arg = None THEN config_file ELSE arg)
    IN  /\ config_disk' = r.disk
        /\ cfg_call' = CfgCall("save_config", FALSE,
                               cfg_call.op = "load_config" /\ cfg_call.found,
                               r.wrote, r.raised)
        /\ cfg_ret' = <<>>
        /\ cfg_added' = IF r.wrote
                        THEN {[a EXCEPT !.saved = TRUE] :
                                 a \in {b \in cfg_added : DictHas(configs, b.section)}}
                        ELSE cfg_added
        /\ UNCHANGED <<configs, config_file, cm, credentials_file>>
        /\ ConfigFrame

\* config_manager.add_config(name, url, username, password, service, autoconnect,
\* remember_me)
AddConfig(name, url, username, password, service, autoconnect, remember_me) ==
    /\ Len(configs) < MaxProfiles
    /\ LET r == add_config(configs, credentials_file, cm, name, url, username, password,
                           service, autoconnect, remember_me)
       IN  /\ configs' = r.configs
           /\ credentials_file' = r.file
           /\ cm' = r.cm
    /\ cfg_call' = CfgCall("add_config", FALSE, FALSE, FALSE, FALSE)
    /\ cfg_ret' = <<>>
    /\ LET section == <<"lms", ToString(Len(configs) + 1)>>
       IN  cfg_added' = {a \in cfg_added : a.section # section}
                        \cup (IF remember_me
                              THEN {Added(section, name, url, password, FALSE)}
                              ELSE {})
    /\ UNCHANGED <<config_disk, config_file>>
    /\ ConfigFrame

\* config_manager.remove_config(section_name)
RemoveConfig(section_name) ==
    /\ LET r == remove_config(configs, credentials_file, section_name)
       IN  /\ configs' = r.configs
           /\ credentials_file' = r.file
    /\ cfg_call' = CfgCall("remove_config", FALSE, FALSE, FALSE, FALSE)
    /\ cfg_ret' = <<>>
    /\ cfg_added' = IF DictHas(configs, section_name)
                    THEN {a \in cfg_added : a.section # section_name}
                    ELSE cfg_added
    /\ UNCHANGED <<config_disk, config_file, cm>>
    /\ ConfigFrame

\* config_manager.get_autoconnect_config()
GetAutoconnectConfig ==
    /\ cfg_call' = CfgCall("get_autoconnect_config", FALSE, FALSE, FALSE, FALSE)
    /\ cfg_ret' = get_autoconnect_config(configs)
    /\ UNCHANGED <<config_disk, configs, config_file, cm, credentials_file, cfg_added>>
    /\ ConfigFrame

\* the application is closed and started again: a new ConfigManager and a new
\* CredentialManager
RestartConfig ==
    /\ configs' = <<>>
    /\ config_file' = ""
    /\ cm' = NewCM
    /\ cfg_call' = CfgCall("restart", FALSE, FALSE, FALSE, FALSE)
    /\ cfg_ret' = <<>>
    /\ cfg_added' = {a \in cfg_added : a.saved}
    /\ UNCHANGED <<config_disk, credentials_file>>
    /\ ConfigFrame

\* the section keys remove_config is called with
SectionKeys == {<<"lms", "1">>, <<"lms", "B">>}

\* autoconnect and remember_me of the add_config calls
AddFlags ==
    {[autoconnect |-> FALSE, remember_me |-> FALSE],
     [autoconnect |-> FALSE, remember_me |-> TRUE],
     [autoconnect |-> TRUE, remember_me |-> TRUE]}

ConfigNext ==
    \/ LoadConfig
    \/ \E arg \in {None, ConfigPath} : SaveConfig(arg)
    \/ \E flags \in AddFlags :
          AddConfig(<<"Moodle">>, <<"http://moodle">>, <<"u1">>, <<"pw2">>,
                    <<"moodle_mobile_app">>, flags.autoconnect, flags.remember_me)
    \/ \E section_name \in SectionKeys : RemoveConfig(section_name)
    \/ GetAutoconnectConfig
    \/ RestartConfig

(***************************************************************************)
(* SpecLoad: two load_lms_data calls on one LMS object.  A call takes the  *)
(* sub-steps of load_lms_data one at a time: the clearing of the lists,    *)
(* load_categories, load_courses, load_enrolled_courses; nothing keeps the *)
(* sub-steps of the other call from running in between.                    *)
(***************************************************************************)
Callers == {"P", "Q"}

\* the catalogs the server answers a load with
LoadCatalogs ==
    {a \in Answers :
        /\ a.categories \in {Ok(<<Science>>), Ok(<<Unnamed, Science>>)}
        /\ a.courses \in {Ok(<<Physics, Loose>>), Failed}
        /\ a.user = [status |-> "ok", id |-> 5]
        /\ a.enrolled = Ok(<<Physics>>)}

\* an LMS after a connect that got the token "abc"
ConnectedLMS(answers) == LMS_connect(NewLMS, [kind |-> "object", token |-> "abc"], answers).s

\* a clearing that leaves self._categories as it is
ClearLists_KeepsCategories(s) ==
    [Aged(s) EXCEPT !.courses = <<>>, !.enrolled_courses = <<>>]

\* load_lms_data, lines 681-683: the three lists are cleared
ClearLists(s) == Cleared(Aged(s))

\* a call of p is between two sub-steps
Running(p) == loaders[p].pc \in {"cleared", "categories", "courses"}

LoadIdle ==
    /\ loaders = [p \in Callers |-> [pc |-> "idle", answers |-> NoAnswers]]
    /\ load_order = [overlapped |-> FALSE, last |-> None]

LoadInit ==
    /\ lms \in {ConnectedLMS(a) : a \in LoadCatalogs \cup {NoAnswers}}
    /\ call = Call("init", FALSE, NoTokenResponse, NoAnswers, None, None, <<>>, "", FALSE, FALSE, 0)
    /\ LoadIdle

\* p calls lms.load_lms_data(): the lists are cleared
BeginLoad(p, answers) ==
    /\ ~Running(p)
    /\ lms' = ClearLists(lms)
    /\ loaders' = [loaders EXCEPT ![p] = [pc |-> "cleared", answers |-> answers]]
    /\ load_order' = [overlapped |-> \E q \in Callers \ {p} : Running(q), last |-> p]
    /\ LoadFrame

\* self.load_categories()
StepCategories(p) ==
    /\ loaders[p].pc = "cleared"
    /\ LET r == load_categories(lms, loaders[p].answers.categories)
       IN  /\ lms' = r.s
           /\ loaders' = [loaders EXCEPT ![p].pc = IF r.escaped THEN "done" ELSE "categories"]
    /\ UNCHANGED load_order
    /\ LoadFrame

\* self.load_courses()
StepCourses(p) ==
    /\ loaders[p].pc = "categories"
    /\ LET r == load_courses(lms, loaders[p].answers.courses)
       IN  /\ lms' = r.s
           /\ loaders' = [loaders EXCEPT ![p].pc = IF r.escaped THEN "done" ELSE "courses"]
    /\ UNCHANGED load_order
    /\ LoadFrame

\* self.load_enrolled_courses(), and load_lms_data returns
StepEnrolled(p) ==
    /\ loaders[p].pc = "courses"
    /\ lms' = load_enrolled_courses(lms, loaders[p].answers.user,
                                    loaders[p].answers.enrolled).s
    /\ loaders' = [loaders EXCEPT ![p].pc = "done"]
    /\ UNCHANGED load_order
    /\ LoadFrame

LoadNext ==
    \E p \in Callers :
        \/ \E answers \in LoadCatalogs : BeginLoad(p, answers)
        \/ StepCategories(p)
        \/ StepCourses(p)
        \/ StepEnrolled(p)

(***************************************************************************)
(* SpecNetwork: one LMSNetwork.  The list objects are named: own is        *)
(* LMSNetwork._lms_list, copy is the list a copy() call made; the caller   *)
(* of get_all_lms holds one of them and may change it.  An index is a      *)
(* Python index: the first element has index 0.                            *)
(***************************************************************************)
\* number of instances add is explored up to
MaxNetwork == 3

Indices == -1..MaxNetwork

\* 0 <= index < len(self._lms_list)
InRange(list, index) == 0 <= index /\ index < Len(list)

\* LMSNetwork.add
LMSNetwork_add(list, l) == Append(list, l)

\* LMSNetwork.count
LMSNetwork_count(list) == Len(list)

\* LMSNetwork.get_lms, __getitem__
LMSNetwork_get_lms(list, index) == IF InRange(list, index) THEN list[index + 1] ELSE None

\* LMSNetwork.remove: self._lms_list.pop(index)
LMSNetwork_remove(list, index) ==
    IF InRange(list, index)
    THEN SubSeq(list, 1, index) \o SubSeq(list, index + 2, Len(list))
    ELSE list

\* LMSNetwork.clear
LMSNetwork_clear(list) == <<>>

\* LMSNetwork.__setitem__
LMSNetwork_setitem(list, index, value) ==
    IF InRange(list, index) THEN [list EXCEPT ![index + 1] = value] ELSE list

\* a get_all_lms that returns self._lms_list itself
get_all_lms_NoCopy(lists) == [lists |-> lists, held |-> "own"]

\* LMSNetwork.get_all_lms: the list objects afterwards and the one it returns
get_all_lms(lists) == [lists |-> [lists EXCEPT !.copy = lists.own], held |-> "copy"]

\* the last call: its arguments (value: the instance passed; for get_lms what
\* count() returned), what it returned, and self._lms_list before it
NetCall(op, index, value, ret, before) ==
    [op |-> op, index |-> index, value |-> value, ret |-> ret, before |-> before]

\* LMSNetwork()
NetIdle ==
    /\ net_lists = [own |-> <<>>, copy |-> <<>>]
    /\ net_held = "none"
    /\ net_call = NetCall("new", 0, None, None, <<>>)

NetUpdate(op, index, value, own) ==
    /\ net_lists' = [net_lists EXCEPT !.own = own]
    /\ net_call' = NetCall(op, index, value, None, net_lists.own)
    /\ UNCHANGED net_held
    /\ NetFrame

\* network.add(l)
NetAdd(l) ==
    /\ Len(net_lists.own) < MaxNetwork
    /\ NetUpdate("add", 0, l, LMSNetwork_add(net_lists.own, l))

\* network.remove(index)
NetRemove(index) == NetUpdate("remove", index, None, LMSNetwork_remove(net_lists.own, index))

\* network[index] = l
NetSetItem(index, l) ==
    NetUpdate("__setitem__", index, l, LMSNetwork_setitem(net_lists.own, index, l))

\* network.clear()
NetClear == NetUpdate("clear", 0, None, LMSNetwork_clear(net_lists.own))

\* network.get_lms(index), with network.count()
NetGetLms(index) ==
    /\ net_call' = NetCall("get_lms", index, LMSNetwork_count(net_lists.own),
                           LMSNetwork_get_lms(net_lists.own, index), net_lists.own)
    /\ UNCHANGED <<net_lists, net_held>>
    /\ NetFrame

\* network.get_all_lms()
NetGetAllLms ==
    LET r == get_all_lms(net_lists)
    IN  /\ net_lists' = r.lists
        /\ net_held' = r.held
        /\ net_call' = NetCall("get_all_lms", 0, None, None, net_lists.own)
        /\ NetFrame

\* the caller changes the list get_all_lms returned: append(l), or clear() for None
CallerChanges(l) ==
    /\ net_held # "none"
    /\ Len(net_lists[net_held]) < MaxNetwork
    /\ net_lists' = [net_lists EXCEPT ![net_held] = IF l = None THEN <<>> ELSE Append(@, l)]
    /\ net_call' = NetCall("caller_changes", 0, l, None, net_lists.own)
    /\ UNCHANGED net_held
    /\ NetFrame

NetNext ==
    \/ \E l \in LMSs : NetAdd(l)
    \/ \E index \in Indices : NetRemove(index)
    \/ \E index \in Indices : \E l \in LMSs : NetSetItem(index, l)
    \/ NetClear
    \/ \E index \in Indices : NetGetLms(index)
    \/ NetGetAllLms
    \/ \E l \in LMSs \cup {None} : CallerChanges(l)

Init ==
    LmsInit /\ GraphInit /\ FilterIdle /\ ClientIdle /\ VaultIdle /\ RaceIdle /\ ConfigIdle
    /\ LoadIdle /\ NetIdle

Next ==
    \/ \E tokenResponse \in TokenResponses : \E answers \in AnswersAfter(tokenResponse) :
          Connect(tokenResponse, answers)
    \/ \E answers \in AnswersFor(lms.moodle_client) : LoadLmsData(answers)
    \/ \E answer \in {a.courses : a \in AnswersFor(lms.moodle_client)} : GetCourses(answer)
    \/ \E answer \in {a.categories : a \in AnswersFor(lms.moodle_client)} :
          GetCategoriesFromConnection(answer)

Spec == Init /\ [][Next]_vars

InitGraph ==
    GraphInit /\ FilterIdle /\ LmsInit /\ ClientIdle /\ VaultIdle /\ RaceIdle /\ ConfigIdle
    /\ LoadIdle /\ NetIdle

SpecGraph == InitGraph /\ [][GraphNext]_vars

InitFilter ==
    FilterInit /\ GraphInit /\ LmsInit /\ ClientIdle /\ VaultIdle /\ RaceIdle /\ ConfigIdle
    /\ LoadIdle /\ NetIdle

SpecFilter == InitFilter /\ [][FilterNext]_vars

InitClient ==
    ClientIdle /\ GraphInit /\ FilterIdle /\ LmsInit /\ VaultIdle /\ RaceIdle /\ ConfigIdle
    /\ LoadIdle /\ NetIdle

SpecClient == InitClient /\ [][ClientNext]_vars

InitCipher ==
    VaultIdle /\ GraphInit /\ FilterIdle /\ LmsInit /\ ClientIdle /\ RaceIdle /\ ConfigIdle
    /\ LoadIdle /\ NetIdle

SpecCipher == InitCipher /\ [][CipherNext]_vars

InitVault ==
    VaultInit /\ GraphInit /\ FilterIdle /\ LmsInit /\ ClientIdle /\ RaceIdle /\ ConfigIdle
    /\ LoadIdle /\ NetIdle

SpecVault == InitVault /\ [][VaultNext]_vars

InitRace ==
    RaceIdle /\ VaultIdle /\ GraphInit /\ FilterIdle /\ LmsInit /\ ClientIdle /\ ConfigIdle
    /\ LoadIdle /\ NetIdle

SpecRace == InitRace /\ [][RaceNext]_vars

InitConfig ==
    ConfigInit /\ GraphInit /\ FilterIdle /\ LmsInit /\ ClientIdle /\ RaceIdle
    /\ LoadIdle /\ NetIdle

SpecConfig == InitConfig /\ [][ConfigNext]_vars

InitLoad ==
    LoadInit /\ GraphInit /\ FilterIdle /\ ClientIdle /\ VaultIdle /\ RaceIdle /\ ConfigIdle
    /\ NetIdle

SpecLoad == InitLoad /\ [][LoadNext]_vars

InitNetwork ==
    NetIdle /\ GraphInit /\ FilterIdle /\ LmsInit /\ ClientIdle /\ VaultIdle /\ RaceIdle
    /\ ConfigIdle /\ LoadIdle

SpecNetwork == InitNetwork /\ [][NetNext]_vars

(***************************************************************************)
(* Claims about the add/remove pairs (SpecGraph).                          *)
(***************************************************************************)
\* the list of parent p and the back-reference of child c for one parent/child pair
PairList(pair, p) ==
    CASE pair = "LMS-Category" -> lms_categories[p]
      [] pair = "LMS-Course" -> lms_courses[p]
      [] pair = "Category-Course" -> category_courses[p]
      [] pair = "Course-Section" -> course_content[p]
      [] pair = "Section-Module" -> section_modules[p]
      [] pair = "Course-User" -> course_enrolled_users[p]

PairBackref(pair, c) ==
    CASE pair = "LMS-Category" -> category_lms[c]
      [] pair = "LMS-Course" -> course_lms[c]
      [] pair = "Category-Course" -> course_category[c]
      [] pair = "Course-Section" -> section_course[c]
      [] pair = "Section-Module" -> module_section[c]
      [] pair = "Course-User" -> user_course[c]

PairParents(pair) ==
    CASE pair \in {"LMS-Category", "LMS-Course"} -> LMSs
      [] pair = "Category-Course" -> Categories
      [] pair \in {"Course-Section", "Course-User"} -> Courses
      [] pair = "Section-Module" -> Sections

PairChildren(pair) ==
    CASE pair = "LMS-Category" -> Categories
      [] pair \in {"LMS-Course", "Category-Course"} -> Courses
      [] pair = "Course-Section" -> Sections
      [] pair = "Section-Module" -> Modules
      [] pair = "Course-User" -> Users

Pairs == {"LMS-Category", "LMS-Course", "Category-Course", "Course-Section",
          "Section-Module", "Course-User"}

\* C1: after parent.add(child) the child's back-reference is the parent and the
\* child is in the parent's list; after parent.remove(child) on a child that was
\* in the list, the back-reference is None and the child is not in the list.
C1_AddRemovePairing ==
    /\ graphOp.op = "add" =>
          /\ PairBackref(graphOp.pair, graphOp.child) = graphOp.parent
          /\ InList(graphOp.child, PairList(graphOp.pair, graphOp.parent))
    /\ (graphOp.op = "remove" /\ graphOp.wasIn) =>
          /\ PairBackref(graphOp.pair, graphOp.child) = None
          /\ ~InList(graphOp.child, PairList(graphOp.pair, graphOp.parent))

\* C2: every entity is in the list of at most one parent of a kind, and that
\* parent is the one its back-reference names.
C2_SingleOwner ==
    \A pair \in Pairs : \A p \in PairParents(pair) : \A c \in PairChildren(pair) :
        InList(c, PairList(pair, p)) => PairBackref(pair, c) = p

(***************************************************************************)
(* Claims about the filter text (SpecFilter).                              *)
(***************************************************************************)
\* C3: get_filter_content returns the text of the entity's current attribute
\* values, and a cached text is never stale.
C3_FilterContentFresh ==
    /\ fc_read # None => fc_read = FilterText(fc_kind, fc_attrs)
    /\ fc_cache # "" => fc_cache = FilterText(fc_kind, fc_attrs)

\* a read that follows a change of a formatted attribute made after an earlier read
C3_Witness ==
    /\ fc_trail = 3
    /\ fc_read # None
    /\ fc_read = FilterText(fc_kind, fc_attrs)

(***************************************************************************)
(* Claims about LMS.connect and load_lms_data (Spec).                      *)
(***************************************************************************)
\* the last call ran load_lms_data (load_lms_data itself or a successful connect)
Loaded == call.ran # <<>>

\* what the fetch methods returned to the load of the last call
GotCategories == Fetch(lms.moodle_client, call.answers.categories)
GotCourses == Fetch(lms.moodle_client, call.answers.courses)
GotUser == FetchUser(lms.moodle_client, call.answers.user)
GotEnrolled == Fetch(lms.moodle_client, call.answers.enrolled)

\* the fetch returned a list, and every element of it is a record
WellFormed(fetched) ==
    /\ fetched.status = "ok"
    /\ \A i \in 1..Len(fetched.data) : fetched.data[i].dict

Ids(objects) == [i \in 1..Len(objects) |-> objects[i].id]

HasId(objects, id) == \E i \in 1..Len(objects) : objects[i].id = id

\* every course object the LMS reaches: LMS._courses, the categories' course
\* lists and LMS._enrolled_courses
AllLatest(s) ==
    /\ \A i \in 1..Len(s.categories) :
          /\ s.categories[i].built = "latest"
          /\ \A j \in 1..Len(s.categories[i].courses) :
                s.categories[i].courses[j].built = "latest"
    /\ \A i \in 1..Len(s.courses) : s.courses[i].built = "latest"
    /\ \A i \in 1..Len(s.enrolled_courses) : s.enrolled_courses[i].built = "latest"

\* C4: connect on a new LMS: an {"error": ...} answer gives False and an empty
\* LMS.token; a {"token": t} answer gives True and LMS.token = t, and
\* load_lms_data has run, with the token already stored when it began.
C4_ConnectOnNewLms ==
    (call.op = "connect" /\ call.first /\ call.tokenResponse.kind = "object") =>
        IF call.tokenResponse.token = None
        THEN /\ call.ret = "False"
             /\ lms.token = ""
        ELSE /\ call.ret = "True"
             /\ lms.token = call.tokenResponse.token
             /\ Loaded
             /\ call.tokenAtLoad = call.tokenResponse.token

\* a first connect that got the token "abc" and loaded categories with it
C4_Witness ==
    /\ call.op = "connect"
    /\ call.first
    /\ call.tokenResponse = [kind |-> "object", token |-> "abc"]
    /\ call.ret = "True"
    /\ lms.token = "abc"
    /\ call.tokenAtLoad = "abc"
    /\ Len(lms.categories) > 0

\* C5: a connect that returns False leaves LMS.categories (with the course lists
\* of the categories), LMS.courses and LMS.enrolled_courses as they were.
C5_FailedConnectKeepsGraph ==
    [][(call'.op = "connect" /\ call'.ret = "False") =>
          /\ lms'.categories = lms.categories
          /\ lms'.courses = lms.courses
          /\ lms'.enrolled_courses = lms.enrolled_courses]_vars

\* a failed connect on an LMS that holds a graph loaded earlier
C5_Witness ==
    /\ call.op = "connect"
    /\ call.ret = "False"
    /\ ~call.first
    /\ Len(lms.categories) > 0
    /\ Len(lms.categories[1].courses) > 0
    /\ Len(lms.courses) > 0
    /\ Len(lms.enrolled_courses) > 0

\* C6: after a load_lms_data that follows a load from another catalog, the LMS
\* holds only entities the second load built, from the second catalog's records.
C6_SecondLoadReplaces ==
    (Loaded /\ call.again) =>
        /\ AllLatest(lms)
        /\ \A i \in 1..Len(lms.categories) :
              /\ HasId(GotCategories.data, lms.categories[i].id)
              /\ \A j \in 1..Len(lms.categories[i].courses) :
                    HasId(GotCourses.data, lms.categories[i].courses[j].id)
        /\ \A i \in 1..Len(lms.courses) : HasId(GotCourses.data, lms.courses[i].id)
        /\ \A i \in 1..Len(lms.enrolled_courses) :
              HasId(GotEnrolled.data, lms.enrolled_courses[i].id)

\* a second load, from other answers than the first, that built categories and courses
C6_Witness ==
    /\ Loaded
    /\ call.again
    /\ Len(lms.categories) > 0
    /\ Len(lms.courses) > 0

\* C7: after load_lms_data every course record whose categoryid matches no
\* loaded category is in LMS.courses.
C7_NoCourseDropped ==
    (Loaded /\ WellFormed(GotCourses)) =>
        \A i \in 1..Len(GotCourses.data) :
            get_category_by_id(lms, GotCourses.data[i].categoryid) = NoCategory
                => HasId(lms.courses, GotCourses.data[i].id)

RECURSIVE DictPrefix(_)
DictPrefix(data) ==
    IF data = <<>> \/ ~Head(data).dict THEN <<>> ELSE <<Head(data)>> \o DictPrefix(Tail(data))

\* the enrolled-courses sub-step got no list: the user lookup or the fetch failed
EnrolledFailed ==
    \/ GotUser.status # "ok"
    \/ GotUser.id = 0
    \/ GotEnrolled.status # "ok"

\* C9: in load_lms_data all three sub-steps run whatever fails, no exception
\* leaves load_lms_data, each sub-step keeps what it built up to its failure,
\* and a failed enrolled-courses fetch leaves the categories and courses
\* loaded and enrolled_courses empty.
C9_SubStepsIndependent ==
    Loaded =>
        /\ call.ran = <<"load_categories", "load_courses", "load_enrolled_courses">>
        /\ ~call.escaped
        /\ Ids(lms.categories) = Ids(DictPrefix(GotCategories.data))
        /\ \A i \in 1..Len(DictPrefix(GotCourses.data)) :
              LET rec == GotCourses.data[i]
              IN  /\ rec.categoryid <= 0 => HasId(lms.courses, rec.id)
                  /\ HasId(lms.categories, rec.categoryid) =>
                        \E k \in 1..Len(lms.categories) :
                            HasId(lms.categories[k].courses, rec.id)
        /\ IF EnrolledFailed THEN lms.enrolled_courses = <<>>
           ELSE Ids(lms.enrolled_courses) = Ids(DictPrefix(GotEnrolled.data))

\* the enrolled-courses fetch failed after the categories and courses were fetched
C9_Witness ==
    /\ Loaded
    /\ WellFormed(GotCategories)
    /\ WellFormed(GotCourses)
    /\ GotUser = [status |-> "ok", id |-> 5]
    /\ GotEnrolled = Failed
    /\ Len(lms.categories) = 2
    /\ Len(lms.courses) > 0
    /\ Len(lms.categories[2].courses) > 0
    /\ lms.enrolled_courses = <<>>

\* C10: MoodleRestClient.connect on a client with an empty token returns False,
\* raises nothing and leaves the token empty when the transport fails, the
\* status is not 2xx, the body is no JSON or the parsed body has no 'token'.
C10_FailedHandshakeReturnsFalse ==
    (call.op = "connect"
        /\ ~(call.tokenResponse.kind = "object" /\ call.tokenResponse.token # None)) =>
        /\ call.clientRet = "False"
        /\ lms.moodle_client.token = ""

(***************************************************************************)
(* Claims about the REST client (SpecClient).                              *)
(***************************************************************************)
\* the last call was _make_request or one of the list-returning fetch methods
RequestCall == rest_call.op \in {"_make_request", "fetch"}

\* the answer is one of the failures: transport, status, a body that is no JSON,
\* or a JSON object with an 'exception' key
FailedAnswer(response) ==
    \/ response.kind \in {"transport_error", "http_error"}
    \/ response.body \in OtherBodies
    \/ response.body \in {"{\"exception\": \"e\", \"message\": \"m\"}",
                          "{\"errorcode\": \"c\", \"exception\": null}"}

\* C11: _make_request and the list-returning fetch methods never raise; without a
\* token they return None and send no request; with a token they send one request
\* and return None on a transport error, a non-2xx status, a body that is no JSON
\* or a JSON object with an 'exception' key, and the decoded body otherwise.
C11_RequestNoneOrBody ==
    RequestCall =>
        /\ ~rest_call.result.raised
        /\ rest_call.tokenBefore = "" =>
              rest_call.result.ret = PyNone /\ rest_call.result.sent = <<>>
        /\ rest_call.tokenBefore # "" =>
              /\ Len(rest_call.result.sent) = 1
              /\ rest_call.result.sent[1].data[1] = rest_call.tokenBefore
              /\ IF FailedAnswer(rest_call.response)
                 THEN rest_call.result.ret = PyNone
                 ELSE rest_call.result.ret = json_loads(rest_call.response.body).value

\* a fetch method with a token got a JSON object with an 'exception' key and
\* returned None
C11_Witness ==
    /\ rest_call.op = "fetch"
    /\ rest_call.tokenBefore = "abc"
    /\ rest_call.response.kind = "ok"
    /\ rest_call.response.body = "{\"errorcode\": \"c\", \"exception\": null}"
    /\ rest_call.result.ret = PyNone
    /\ Len(rest_call.result.sent) = 1

\* the failures of a download: no token, transport, status, or a destination
\* that cannot be opened or written
FailedDownload ==
    \/ rest_call.tokenBefore = ""
    \/ rest_call.response.kind \in {"transport_error", "http_error", "broken_stream"}
    \/ rest_call.disk \in {"open_fails", "write_fails"}

\* C12: download_file sends no request without a token; with one it requests the
\* URL with "&token=<token>" appended when the URL holds a '?' and "?token=<token>"
\* otherwise; on every failure it returns False, and it never raises.
C12_DownloadFalseOnFailure ==
    rest_call.op = "download_file" =>
        /\ ~rest_call.result.raised
        /\ rest_call.tokenBefore = "" => rest_call.result.sent = <<>>
        /\ rest_call.tokenBefore # "" =>
              /\ Len(rest_call.result.sent) = 1
              /\ rest_call.result.sent[1].url =
                    rest_call.name \o <<IF InList("?", rest_call.name)
                                        THEN "&token=" ELSE "?token=",
                                        rest_call.tokenBefore>>
        /\ FailedDownload => rest_call.result.ret = PyFalse

(***************************************************************************)
(* Claims about encrypt_password / decrypt_password (SpecCipher).          *)
(***************************************************************************)
\* the last call decrypted the text that the last encrypt_password returned
DecryptedLastEnc ==
    /\ vault_call.op = "decrypt_password"
    /\ last_enc.set
    /\ vault_call.text = last_enc.text

\* C13: with a fixed master key k (every encrypt/decrypt call passes the same
\* master_password, an explicit one or None for the machine key), decrypting what
\* encrypt_password returned for p gives p, on the instance that encrypted and on
\* a new instance after a restart.
C13_RoundTrip ==
    /\ (DecryptedLastEnc /\ masters_used = {vault_call.master}) =>
           vault_call.plain = last_enc.password
    /\ \A p \in Passwords, k \in Masters :
           masters_used \subseteq {k} =>
               LET e == encrypt_password(cm, p, k)
               IN  /\ decrypt_password(e.cm, e.ret, k).ret = p
                   /\ decrypt_password(NewCM, e.ret, k).ret = p

\* a new instance after a restart decrypted, under the one master password in
\* use, the text the instance before it had encrypted
C13_Witness ==
    /\ DecryptedLastEnc
    /\ last_enc.restarted
    /\ masters_used = {"k1"}
    /\ vault_call.master = "k1"
    /\ vault_call.plain = "pw2"

\* C14: decrypting under the master password k2 what was encrypted under another
\* master password k1 gives "", whatever calls the instance served before.
C14_OtherKeyGivesEmpty ==
    (/\ DecryptedLastEnc
     /\ last_enc.master # None
     /\ vault_call.master # None
     /\ vault_call.master # last_enc.master) => vault_call.plain = ""

(***************************************************************************)
(* Claims about the credentials file (SpecVault).                          *)
(***************************************************************************)
\* C15: after save_credentials(s, u, p, remember=False) the store has no entry
\* for s: get_credentials(s) returns {} and s is not in list_services().
C15_NotRememberedNoEntry ==
    (vault_call.op = "save_credentials" /\ ~vault_call.remember) =>
        /\ \A m \in VaultMasters :
              get_credentials(credentials_file, cm, vault_call.service, m).ret = NoCred
        /\ ~InList(vault_call.service, list_services(credentials_file))

\* C16: after save_credentials(s, u, p, remember=True, k), get_credentials(s, k)
\* returns {username: u, password: p, remember: True}, on this instance and on a
\* new instance after a restart.
C16_SaveThenGet ==
    (vault_call.op = "save_credentials" /\ vault_call.remember) =>
        LET expected == Cred(vault_call.username, vault_call.password)
        IN  /\ get_credentials(credentials_file, cm, vault_call.service,
                               vault_call.master).ret = expected
            /\ get_credentials(credentials_file, NewCM, vault_call.service,
                               vault_call.master).ret = expected

\* the text cannot be decrypted with the key: it is no base64, no Fernet token,
\* or a token of another key
Undecryptable(text, key) ==
    ~text.base64 \/ ~text.token.authentic \/ text.token.key # key

\* C17: get_credentials(s) returns {} when the file is absent, is no JSON, has no
\* entry for s, has an entry whose remember flag is false, or has an entry whose
\* text cannot be decrypted with the key of the instance.
C17_GetEmptyOnFailure ==
    vault_call.op = "get_credentials" =>
        LET d == LoadOrEmpty(credentials_file)
            s == vault_call.service
        IN  (\/ ~credentials_file.exists
             \/ ~credentials_file.text.json
             \/ ~DictHas(d, s)
             \/ ~DictGet(d, s).remember
             \/ Undecryptable(DictGet(d, s).password, cm.key)) => vault_call.cred = NoCred

\* the stored entry of a service name, if any
EntryOf(file, service_name) ==
    IF DictHas(LoadOrEmpty(file), service_name)
    THEN <<DictGet(LoadOrEmpty(file), service_name)>> ELSE <<>>

\* C18: save_credentials(s, ..., remember=True) and delete_credentials(s) leave
\* the stored entry of every other service name as it was; after
\* delete_credentials(s), get_credentials(s) returns {} and s is not listed; after
\* clear_all_credentials(), list_services() returns [].
C18_MapKeyedByService ==
    [][/\ ((vault_call'.op = "save_credentials" /\ vault_call'.remember)
               \/ vault_call'.op = "delete_credentials") =>
              \A other \in Services \ {vault_call'.service} :
                  EntryOf(credentials_file', other) = EntryOf(credentials_file, other)
       /\ vault_call'.op = "delete_credentials" =>
              /\ \A m \in VaultMasters :
                    get_credentials(credentials_file', cm', vault_call'.service, m).ret
                        = NoCred
              /\ ~InList(vault_call'.service, list_services(credentials_file'))
       /\ vault_call'.op = "clear_all_credentials" =>
              list_services(credentials_file') = <<>>]_vars

\* delete_credentials removed the entry of s1 and the file still holds the
\* remembered entry of s2
C18_Witness ==
    /\ vault_call.op = "delete_credentials"
    /\ vault_call.service = "s1"
    /\ vault_call.had
    /\ list_services(credentials_file) = <<"s2">>
    /\ get_credentials(credentials_file, cm, "s2", None).ret = Cred("u1", "pw2")

(***************************************************************************)
(* Claims about two instances on the credentials file (SpecRace).          *)
(***************************************************************************)
AllIdle == \A i \in Instances : race[i].pc = "idle"

\* the file shows the last call the instance completed: the entry it saved, or
\* no entry after its delete
Kept(i) ==
    /\ race[i].last.op = "save" => EntryOf(credentials_file, ServiceOf(i)) = race[i].last.entry
    /\ race[i].last.op = "delete" => EntryOf(credentials_file, ServiceOf(i)) = <<>>

\* C19: when the save_credentials / delete_credentials calls of the two instances
\* never overlap, the file shows the last update of each of them once they are
\* done; calls that interleave between the read and the write can leave a file
\* that lacks the update of one instance (the state C19_LostUpdate).
C19_NoOverlapKeepsBoth ==
    (AllIdle /\ ~overlapped) => \A i \in Instances : Kept(i)

\* both instances completed a save_credentials, the calls overlapped, and the
\* file holds the entry of B but no entry of A
C19_LostUpdate ==
    /\ AllIdle
    /\ overlapped
    /\ race["A"].last.op = "save"
    /\ race["B"].last.op = "save"
    /\ EntryOf(credentials_file, "s1") = <<>>
    /\ EntryOf(credentials_file, "s2") = race["B"].last.entry

(***************************************************************************)
(* Claims about the configuration file (SpecConfig).                       *)
(***************************************************************************)
\* what the round trip compares: the section key of each profile with its url,
\* user, service, autoconnect and remember_me
ProfileView(configs_) ==
    [i \in 1..Len(configs_) |->
        [section |-> configs_[i].name, url |-> configs_[i].cfg.url,
         user |-> configs_[i].cfg.username, service |-> configs_[i].cfg.service,
         autoconnect |-> configs_[i].cfg.autoconnect,
         remember_me |-> configs_[i].cfg.remember_me]]

\* the profiles a new ConfigManager loads from the file
Reloaded == load_config(config_disk, <<>>, credentials_file, NewCM).configs

\* every section of the file has a password option, and it is empty
PasswordsBlank ==
    \A i \in 1..Len(config_disk.sections) :
        LET options == config_disk.sections[i].options
        IN  /\ HasOption(options, "password")
            /\ \A j \in 1..Len(options) :
                  Lower(options[j].key) = "password" => options[j].value = <<>>

HasPasswordOf(configs_, a) ==
    /\ DictHas(configs_, a.section)
    /\ DictGet(configs_, a.section).cfg.password = a.password

\* C21: a remember-me password survives a restart: after add_config(name, url,
\* username, password p, remember_me True) and a save_config that wrote the
\* profile, the load_config of a new ConfigManager that finds the file yields the
\* profile with password p
C21_RememberedPasswordSurvives ==
    [][(cfg_call.op = "restart" /\ cfg_call'.op = "load_config" /\ cfg_call'.found)
       => \A a \in cfg_added' : a.saved => HasPasswordOf(configs', a)]_vars

\* the credentials file has an entry under the key of the service
VaultHas(file, service_name) == DictHas(LoadOrEmpty(file), service_name)

\* C22: after remove_config of a profile whose remember_me is set the credentials
\* file has no entry for the password add_config stored for the profile, nor one
\* under the key of the profile as it is in memory; remove_config of a profile
\* that is not remembered leaves the credentials file as it is
C22_RemovePurgesVault ==
    [][cfg_call'.op = "remove_config"
       => \A i \in 1..Len(configs) :
             ~DictHas(configs', configs[i].name)
             => IF configs[i].cfg.remember_me
                THEN /\ ~VaultHas(credentials_file',
                                  ServiceKey(configs[i].cfg.name, configs[i].cfg.url))
                     /\ \A a \in cfg_added :
                           a.section = configs[i].name
                           => ~VaultHas(credentials_file', ServiceKey(a.name, a.url))
                ELSE credentials_file' = credentials_file]_vars

\* C23: get_autoconnect_config returns None when no profile of self.configs has
\* autoconnect set, and otherwise the first profile in insertion order that has it
\* set; after load_config the insertion order is the order of the profile
\* sections of the file
C23_AutoconnectFirstWins ==
    /\ cfg_call.op = "get_autoconnect_config"
       => /\ (cfg_ret = <<>>) <=> (\A i \in 1..Len(configs) : ~configs[i].cfg.autoconnect)
          /\ cfg_ret # <<>>
             => \E i \in 1..Len(configs) :
                   /\ configs[i].cfg.autoconnect
                   /\ \A j \in 1..(i - 1) : ~configs[j].cfg.autoconnect
                   /\ cfg_ret = <<configs[i]>>
    /\ (cfg_call.op = "load_config" /\ cfg_call.found)
       => DictKeys(configs)
          = DictKeys(SelectSeq(config_disk.sections, LAMBDA sec : IsProfile(sec.name)))

\* two different profiles have autoconnect set and the first one is returned
C23_Witness ==
    /\ cfg_call.op = "get_autoconnect_config"
    /\ Len(configs) = 2
    /\ configs[1].cfg.autoconnect /\ configs[2].cfg.autoconnect
    /\ configs[1].cfg # configs[2].cfg
    /\ cfg_ret = <<configs[1]>>

\* C26: add_config never replaces a profile: the call makes self.configs one
\* profile longer and every profile of before is still there under its section key
C26_AddNeverReplaces ==
    [][cfg_call'.op = "add_config"
       => /\ Len(configs') = Len(configs) + 1
          /\ \A i \in 1..Len(configs) :
                /\ DictHas(configs', configs[i].name)
                /\ DictGet(configs', configs[i].name) = configs[i]]_vars

(***************************************************************************)
(* Claims on the connected state of the LMS and of its client (Spec,       *)
(* SpecClient).                                                            *)
(***************************************************************************)
\* C27: after a connect call on the LMS, LMS.is_connected() is true iff the
\* MoodleRestClient the LMS holds is connected, and a connected LMS holds the token
\* of that client
C27_LmsConnectedIffClient ==
    call.op = "connect" =>
        /\ LMS_is_connected(lms) <=> is_connected(lms.moodle_client)
        /\ LMS_is_connected(lms) => lms.token = lms.moodle_client.token

\* C28: success implies connected: when the connect of the client returned True
\* the client is connected, and when the connect of the LMS returned True the LMS
\* is connected, whatever the 'token' field of the answer holds
C28_SuccessImpliesConnected ==
    call.op = "connect" =>
        /\ call.clientRet = "True" => is_connected(lms.moodle_client)
        /\ call.ret = "True" => LMS_is_connected(lms)

\* C29: on a 2xx answer whose body is JSON but no object (an array, a string, a
\* number, null) MoodleRestClient.connect does not raise, returns False and leaves
\* the token as it was
C29_NonObjectBodyReturnsFalse ==
    (rest_call.op = "connect"
        /\ rest_call.response.kind \in {"array", "string", "number", "null"}) =>
        /\ ~rest_call.result.raised
        /\ rest_call.result.ret = PyFalse
        /\ rest_client.token = rest_call.tokenBefore

(***************************************************************************)
(* Claims on the loading getters of the LMS (Spec).                        *)
(***************************************************************************)
RECURSIVE CategoryCourses(_)
\* the courses of the course lists of the categories, one after the other
CategoryCourses(categories) ==
    IF categories = <<>> THEN <<>>
    ELSE Head(categories).courses \o CategoryCourses(Tail(categories))

\* no id is the id of two of the objects
OncePerId(objects) ==
    \A i, j \in 1..Len(objects) : objects[i].id = objects[j].id => i = j

\* C25: the read accessors do not change the graph: when get_courses (the
\* LMS.courses property) or get_categories_from_connection is called after a load
\* and the server answers as it answered the load, no category id is twice in
\* LMS.categories and no course id is twice among LMS.courses and the course
\* lists of the categories
C25_GettersKeepGraph ==
    [][(/\ call.op \in {"connect", "load_lms_data"}
        /\ Loaded
        /\ \/ call'.op = "get_courses" /\ call'.answers.courses = call.answers.courses
           \/ /\ call'.op = "get_categories_from_connection"
              /\ call'.answers.categories = call.answers.categories)
       => /\ OncePerId(lms'.categories)
          /\ OncePerId(lms'.courses \o CategoryCourses(lms'.categories))]_vars

(***************************************************************************)
(* Claims on overlapping load_lms_data calls (SpecLoad).                   *)
(***************************************************************************)
\* the lists of the LMS
Graph(s) == <<s.categories, s.courses, s.enrolled_courses>>

\* the graph a load_lms_data that runs alone builds from the answers
Alone(answers) == Graph(load_lms_data(ConnectedLMS(NoAnswers), answers).s)

\* no call is between two sub-steps, and a call has returned
Quiet ==
    /\ \A p \in Callers : ~Running(p)
    /\ \E p \in Callers : loaders[p].pc = "done"

\* C24: nothing serialises load_lms_data.  A call that began while no other call
\* was between its sub-steps leaves the graph it builds alone; a call that began
\* while another one was between its sub-steps can leave a graph that neither call
\* builds alone, with a category id twice in LMS.categories
C24_NoOverlapSingleLoad ==
    (Quiet /\ ~load_order.overlapped) =>
        Graph(lms) = Alone(loaders[load_order.last].answers)

\* both calls have returned, they overlapped, and the graph is the graph of
\* neither call alone: a category id is twice in LMS.categories
C24_Interleaved ==
    /\ \A p \in Callers : loaders[p].pc = "done"
    /\ load_order.overlapped
    /\ \A p \in Callers : Graph(lms) # Alone(loaders[p].answers)
    /\ ~OncePerId(lms.categories)

(***************************************************************************)
(* Claims on LMSNetwork (SpecNetwork).                                     *)
(***************************************************************************)
\* the index is one of the list
ValidIndex(list, index) == index \in 0..(Len(list) - 1)

\* C30: LMSNetwork is an ordered registry.  add puts the instance behind the
\* others; remove(index) takes out the instance at the index and keeps the others
\* in their order; network[index] = l puts l in the place of the instance at the
\* index; remove and __setitem__ with an index out of range change nothing; clear
\* empties the registry; get_lms(index) returns the instance at the index for
\* 0 <= index < count() and None for every other index; get_all_lms returns a
\* list with the instances of the registry, and a change of that list does not
\* change the registry
C30_OrderedRegistry ==
    LET own == net_lists.own
        before == net_call.before
        i == net_call.index
    IN  /\ net_call.op = "add" => own = before \o <<net_call.value>>
        /\ net_call.op = "remove" =>
              IF ValidIndex(before, i)
              THEN /\ Len(own) = Len(before) - 1
                   /\ \A j \in 1..Len(own) : own[j] = before[IF j <= i THEN j ELSE j + 1]
              ELSE own = before
        /\ net_call.op = "__setitem__" =>
              IF ValidIndex(before, i)
              THEN /\ Len(own) = Len(before)
                   /\ \A j \in 1..Len(own) :
                         own[j] = IF j = i + 1 THEN net_call.value ELSE before[j]
              ELSE own = before
        /\ net_call.op = "clear" => own = <<>>
        /\ net_call.op = "get_lms" =>
              /\ own = before
              /\ net_call.value = Len(own)
              /\ net_call.ret = IF ValidIndex(own, i) THEN own[i + 1] ELSE None
        /\ net_call.op = "get_all_lms" =>
              /\ own = before
              /\ net_held # "none" /\ net_lists[net_held] = own
        /\ net_call.op = "caller_changes" => own = before

\* the caller changed the list get_all_lms returned, and the registry of two
\* instances is as before
C30_Witness ==
    /\ net_call.op = "caller_changes"
    /\ Len(net_lists.own) = 2
    /\ net_lists[net_held] # net_lists.own

====
